---- MODULE Spec2Model ----
(***************************************************************************)
(* Tollgate: a task-gated site blocker.  The background service worker     *)
(* (chrome-extension/background.js) owns the durable state in              *)
(* chrome.storage.local, the relock alarms, and the dynamic blocking       *)
(* rules.  Times are milliseconds since the epoch, as Date.now() returns   *)
(* them; ISO timestamp strings are modelled by the instant they denote.    *)
(* A value that may be null/undefined is a sequence of length 0 or 1.      *)
(* Section names are sequences of one-character strings so that            *)
(* String.prototype.trim is computed rather than assumed.                  *)
(***************************************************************************)
EXTENDS Integers, Sequences, FiniteSets, TLC

VARIABLES
    blockedSites,   \* storage.local blockedSites: list of domains
    tasks,          \* storage.local tasks: flat task list
    config,         \* storage.local config
    streak,         \* storage.local streak
    timeLog,        \* storage.local timeLog
    unlocks,        \* storage.local unlocks: entries in key insertion order
    siteGroups,     \* storage.local siteGroups
    siteSettings,   \* storage.local siteSettings: site -> settings
    alarms,         \* chrome.alarms: pending alarms
    rules,          \* chrome.declarativeNetRequest dynamic rules
    now,            \* Date.now()
    nextGroupId,    \* number of group ids handed out by crypto.randomUUID
    result,         \* the response to the last request
    handlers,       \* handler invocations suspended at an await
    rebuilds,       \* promises chained by syncBlockingRules, in request order
    log,            \* observation of rebuild body steps: <<request, step>>
    doneAtUnlock,   \* history: site -> completed count at its last cost-mode unlock
    syncStore,      \* chrome.storage.sync: the meta record and the chunk keys
    localBackups,   \* storage.local localBackups: backup entries, newest first
    ops             \* history: number of steps taken

storeVars == <<blockedSites, tasks, config, streak, timeLog, unlocks,
               siteGroups, siteSettings>>
vars == <<blockedSites, tasks, config, streak, timeLog, unlocks, siteGroups,
          siteSettings, alarms, rules, now, nextGroupId, result,
          handlers, rebuilds, log, doneAtUnlock, syncStore, localBackups, ops>>

(***************************************************************************)
(* Bounds of the model.                                                    *)
(***************************************************************************)
MaxEvalTasks == 3   \* length of the task lists the evaluators are tried on
MaxCostTasks == 6   \* length of the one-section lists tried in cost mode
MaxTasks == 2       \* length of the stored task list in the lock machine
MaxLog == 2         \* time-log entries written in one run
MaxGroups == 1      \* groups created in one run
MaxMinutes == 30    \* the clock stops after this many minutes
MaxOps == 6         \* steps of one run of the lock machine
MaxCostOps == 7     \* steps of one run of the cost machine

(***************************************************************************)
(* Program constants.                                                      *)
(***************************************************************************)
RULE_ID_BASE == 1000
PAUSE_MIN_JUSTIFICATION == 120
DefaultCooldownMinutes == 30
MsPerMinute == 60000

(***************************************************************************)
(* Optional values and small helpers.                                      *)
(***************************************************************************)
None == <<>>
Some(x) == <<x>>
Val(o) == o[1]

Max(a, b) == IF a >= b THEN a ELSE b
Range(s) == {s[i] : i \in 1..Len(s)}
Includes(s, x) == \E i \in 1..Len(s) : s[i] = x

\* Array.prototype.indexOf, 0-based, -1 when absent
IndexOf(s, x) ==
    IF Includes(s, x)
    THEN (CHOOSE i \in 1..Len(s) : s[i] = x /\ \A j \in 1..(i - 1) : s[j] # x) - 1
    ELSE 0 - 1

\* all sequences over S of length at most n
SeqsUpTo(S, n) == UNION {[1..k -> S] : k \in 0..n}

(***************************************************************************)
(* Strings as character sequences; trim.                                   *)
(***************************************************************************)
IsSpace(c) == c \in {" ", "\t", "\n"}

RECURSIVE TrimStart(_)
TrimStart(s) ==
    IF s # <<>> /\ IsSpace(Head(s)) THEN TrimStart(Tail(s)) ELSE s

RECURSIVE TrimEnd(_)
TrimEnd(s) ==
    IF s # <<>> /\ IsSpace(s[Len(s)]) THEN TrimEnd(SubSeq(s, 1, Len(s) - 1)) ELSE s

Trim(s) == TrimEnd(TrimStart(s))

\* A long text (a pause justification) is a sequence of runs of one
\* character, so that its length and its trimmed value are computed.
Run(c, n) == [c |-> c, n |-> n]

RECURSIVE TextLength(_)
TextLength(text) ==
    IF text = <<>> THEN 0 ELSE Head(text).n + TextLength(Tail(text))

RECURSIVE TrimTextStart(_)
TrimTextStart(text) ==
    IF text # <<>> /\ (IsSpace(Head(text).c) \/ Head(text).n = 0)
    THEN TrimTextStart(Tail(text)) ELSE text

RECURSIVE TrimTextEnd(_)
TrimTextEnd(text) ==
    IF text # <<>> /\ (IsSpace(text[Len(text)].c) \/ text[Len(text)].n = 0)
    THEN TrimTextEnd(SubSeq(text, 1, Len(text) - 1)) ELSE text

\* the text as written, not trimmed
TrimTextKeepSpaces(text) == text

TrimText(text) == TrimTextEnd(TrimTextStart(text))

DEFAULT_SECTION == <<"T", "a", "s", "k", "s">>
Work == <<"W">>
Home == <<"H">>

(***************************************************************************)
(* Config.                                                                 *)
(***************************************************************************)
DEFAULT_CONFIG ==
    [markdownPath |-> "", cooldownMinutes |-> DefaultCooldownMinutes,
     unlockMode |-> "all", unlockSection |-> <<>>]

normalizeConfig(cfg) ==
    [markdownPath |-> IF "markdownPath" \in DOMAIN cfg THEN cfg.markdownPath
                      ELSE DEFAULT_CONFIG.markdownPath,
     cooldownMinutes |-> IF cfg.cooldownMinutes > 0 THEN cfg.cooldownMinutes
                         ELSE DEFAULT_CONFIG.cooldownMinutes,
     unlockMode |-> IF cfg.unlockMode = "section" THEN "section" ELSE "all",
     unlockSection |-> cfg.unlockSection]

(***************************************************************************)
(* Tasks and the unlock requirement evaluators.                            *)
(***************************************************************************)
Task(id, completed, section) ==
    [id |-> id, parentId |-> None, completed |-> completed,
     completedAt |-> None, section |-> section]

\* task.section || "Tasks"
SectionOf(task) == IF task.section = <<>> THEN DEFAULT_SECTION ELSE task.section

IsCompleted(task) == task.completed
InSection(list, section) == SelectSeq(list, LAMBDA t : SectionOf(t) = section)
Every(list) == \A i \in 1..Len(list) : list[i].completed
CompletedCount(list) == Len(SelectSeq(list, IsCompleted))

\* markdown.js getUnlockRequirement: the popup's copy of the evaluator
getUnlockRequirement(list, cfg) ==
    LET mode == IF cfg.unlockMode = "section" THEN "section" ELSE "all"
        section == Trim(cfg.unlockSection)
        scopedTasks == IF section # <<>> THEN InSection(list, section) ELSE <<>>
        scoped == IF mode = "section" THEN scopedTasks ELSE list
        done == CompletedCount(scoped)
        total == Len(scoped)
    IN  [mode |-> mode,
         section |-> IF mode = "section" THEN section ELSE <<>>,
         done |-> done, total |-> total,
         ready |-> total > 0 /\ done = total,
         empty |-> total = 0]

isUnlockRequirementMetNoEmptyCheck(list, cfgIn) ==
    LET cfg == normalizeConfig(cfgIn)
        section == Trim(cfg.unlockSection)
        scoped == InSection(list, section)
    IN  IF cfg.unlockMode = "section"
        THEN IF section = <<>> THEN FALSE ELSE Every(scoped)
        ELSE Len(list) > 0 /\ Every(list)

isUnlockRequirementMet(list, cfgIn) ==
    LET cfg == normalizeConfig(cfgIn)
        section == Trim(cfg.unlockSection)
        scoped == InSection(list, section)
    IN  IF cfg.unlockMode = "section"
        THEN IF section = <<>> THEN FALSE
             ELSE Len(scoped) > 0 /\ Every(scoped)
        ELSE Len(list) > 0 /\ Every(list)

isCostRequirementMetAbsolute(list, cfg, cost, baseline) ==
    IF cost = None \/ Val(cost) <= 0
    THEN isUnlockRequirementMet(list, cfg)
    ELSE CompletedCount(list) >= Val(cost)

isCostRequirementMet(list, cfg, cost, baseline) ==
    IF cost = None \/ Val(cost) <= 0
    THEN isUnlockRequirementMet(list, cfg)
    ELSE LET done == CompletedCount(list)
             effective == done - (IF baseline = None THEN 0 ELSE Val(baseline))
         IN  effective >= Val(cost)

(***************************************************************************)
(* Domains, group keys and alarm names.                                    *)
(***************************************************************************)
Sites == {"a.com", "b.com"}
GroupIds == <<"g1", "g2", "g3">>
GroupIdSet == {GroupIds[i] : i \in 1..Len(GroupIds)}

GroupKey(id) == "group:" \o id
GroupKeys == {GroupKey(id) : id \in GroupIdSet}
Keys == Sites \cup GroupKeys
\* key.startsWith("group:")
IsGroupKey(key) == key \in GroupKeys
\* key.slice("group:".length)
GroupIdOfKey(key) == CHOOSE id \in GroupIdSet : GroupKey(id) = key

AlarmName(key) == "relock-" \o key
AlarmNames == {AlarmName(k) : k \in Keys}
\* alarm.name.slice("relock-".length)
KeyOfAlarm(name) == CHOOSE k \in Keys : AlarmName(k) = name

(***************************************************************************)
(* The unlocks object: entries in key insertion order.                     *)
(***************************************************************************)
HasKey(u, key) == \E i \in 1..Len(u) : u[i].key = key
Lookup(u, key) == u[CHOOSE i \in 1..Len(u) : u[i].key = key]

\* u[key] = rec: an existing key keeps its position, a new one is appended
Put(u, key, rec) ==
    LET e == [key |-> key, unlockedAt |-> rec.unlockedAt, expiresAt |-> rec.expiresAt]
    IN  IF HasKey(u, key)
        THEN [i \in 1..Len(u) |-> IF u[i].key = key THEN e ELSE u[i]]
        ELSE Append(u, e)

RECURSIVE PutAll(_, _, _)
PutAll(u, keys, rec) ==
    IF keys = <<>> THEN u ELSE PutAll(Put(u, Head(keys), rec), Tail(keys), rec)

\* delete u[key]
Delete(u, key) == SelectSeq(u, LAMBDA e : e.key # key)

\* unlock && new Date(unlock.expiresAt).getTime() > now
IsLive(u, key, t) == HasKey(u, key) /\ Lookup(u, key).expiresAt > t

(***************************************************************************)
(* Site/Group registry.                                                    *)
(***************************************************************************)
EmptySettings == [cost |-> None, costBaseline |-> None, lastLockedAt |-> None]
SettingsOf(settings, site) ==
    IF site \in DOMAIN settings THEN settings[site] ELSE EmptySettings
WithSettings(settings, site, rec) ==
    [s \in (DOMAIN settings) \cup {site} |-> IF s = site THEN rec ELSE settings[s]]
WithoutSettings(settings, site) ==
    [s \in (DOMAIN settings) \ {site} |-> settings[s]]

\* index of the first group whose sites include the site, 0 when there is none
resolveGroupForSite(site, groups) ==
    IF \E i \in 1..Len(groups) : Includes(groups[i].sites, site)
    THEN CHOOSE i \in 1..Len(groups) :
            /\ Includes(groups[i].sites, site)
            /\ \A j \in 1..(i - 1) : ~Includes(groups[j].sites, site)
    ELSE 0

\* siteGroups.find((g) => g.id === id)
FindGroup(id, groups) ==
    IF \E i \in 1..Len(groups) : groups[i].id = id
    THEN CHOOSE i \in 1..Len(groups) :
            groups[i].id = id /\ \A j \in 1..(i - 1) : groups[j].id # id
    ELSE 0

getEffectiveCost(site, groups, settings) ==
    LET gi == resolveGroupForSite(site, groups)
        st == SettingsOf(settings, site)
    IN  IF gi > 0 /\ groups[gi].cost # None /\ Val(groups[gi].cost) >= 1
        THEN groups[gi].cost
        ELSE IF st.cost # None /\ Val(st.cost) >= 1 THEN st.cost
        ELSE None

getCostBaseline(site, groups, settings) ==
    LET gi == resolveGroupForSite(site, groups)
        st == SettingsOf(settings, site)
    IN  IF gi > 0 /\ groups[gi].costBaseline # None THEN Val(groups[gi].costBaseline)
        ELSE IF st.costBaseline # None THEN Val(st.costBaseline)
        ELSE 0

(***************************************************************************)
(* Blocking rules.                                                         *)
(***************************************************************************)
\* the addRules of _syncBlockingRulesImpl: one rule per blocked site that
\* has no unexpired unlock record, with the index-derived id
BuildRules(sites, u, t) ==
    {[id |-> RULE_ID_BASE + (i - 1), site |-> sites[i]] :
        i \in {j \in 1..Len(sites) : ~IsLive(u, sites[j], t)}}

\* updateDynamicRules({removeRuleIds, addRules})
UpdateDynamicRules(installed, removeIds, addRules) ==
    {r \in installed : r.id \notin removeIds} \cup addRules

\* RULE_ID_BASE + blockedSites.indexOf(s) for the members found in the list
RuleIdsOf(sites, members) ==
    {RULE_ID_BASE + IndexOf(sites, members[i]) :
        i \in {j \in 1..Len(members) : Includes(sites, members[j])}}

(***************************************************************************)
(* The local store as one value, so that a handler's reads and writes can  *)
(* be computed from the snapshot it read.                                  *)
(***************************************************************************)
Store ==
    [blockedSites |-> blockedSites, tasks |-> tasks, config |-> config,
     streak |-> streak, timeLog |-> timeLog, unlocks |-> unlocks,
     siteGroups |-> siteGroups, siteSettings |-> siteSettings]

DayMs == 86400000
\* new Date(t).toISOString().slice(0, 10), as a day number
DayOf(t) == t \div DayMs

DEFAULT_STREAK == [current |-> 0, longest |-> 0, lastDate |-> None]

\* updateStreak without the return on streak.lastDate === today
updateStreakEveryUnlock(st, t) ==
    LET s == st.streak
        current == IF s.lastDate = Some(DayOf(t - DayMs)) THEN s.current + 1 ELSE 1
    IN  IF ~isUnlockRequirementMet(st.tasks, st.config) THEN s
        ELSE [current |-> current,
              longest |-> IF current > s.longest THEN current ELSE s.longest,
              lastDate |-> Some(DayOf(t))]

\* updateStreak: the streak it leaves in storage
updateStreak(st, t) ==
    LET s == st.streak
        today == DayOf(t)
        yesterday == DayOf(t - DayMs)
        current == IF s.lastDate = Some(yesterday) THEN s.current + 1 ELSE 1
    IN  IF ~isUnlockRequirementMet(st.tasks, st.config) THEN s
        ELSE IF s.lastDate = Some(today) THEN s
        ELSE [current |-> current,
              longest |-> IF current > s.longest THEN current ELSE s.longest,
              lastDate |-> Some(today)]

LogEntry(site, t, paused, justification) ==
    [site |-> site, unlockedAt |-> t, lockedAt |-> None,
     paused |-> paused, justification |-> justification]

\* the cost baseline written by a cost-mode unlock
StampBaseline(st, site, gi, cost) ==
    LET completedNow == CompletedCount(st.tasks)
    IN  IF cost # None /\ Val(cost) >= 1
        THEN IF gi > 0
             THEN [st EXCEPT !.siteGroups[gi].costBaseline = Some(completedNow)]
             ELSE [st EXCEPT !.siteSettings =
                     WithSettings(@, site,
                        [SettingsOf(@, site) EXCEPT !.costBaseline = Some(completedNow)])]
        ELSE st

\* the records written for an unlock or a pause of `site`: one per member
\* site, then the group key
GrantRecordsNoGroupKey(u, site, groups, rec) ==
    LET gi == resolveGroupForSite(site, groups)
        members == IF gi > 0 THEN groups[gi].sites ELSE <<site>>
    IN  PutAll(u, members, rec)

GrantRecords(u, site, groups, rec) ==
    LET gi == resolveGroupForSite(site, groups)
        members == IF gi > 0 THEN groups[gi].sites ELSE <<site>>
        u1 == PutAll(u, members, rec)
    IN  IF gi > 0 THEN Put(u1, GroupKey(groups[gi].id), rec) ELSE u1

\* const alarmName = group ? `relock-group:${group.id}` : `relock-${site}`
GrantAlarmName(site, groups) ==
    LET gi == resolveGroupForSite(site, groups)
    IN  IF gi > 0 THEN AlarmName(GroupKey(groups[gi].id)) ELSE AlarmName(site)

\* unlockSite up to its storage write, from the snapshot st read at time t
unlockSiteAlways(site, st, t) ==
    LET cooldown == normalizeConfig(st.config).cooldownMinutes
        rec == [unlockedAt |-> t, expiresAt |-> t + cooldown * MsPerMinute]
        gi == resolveGroupForSite(site, st.siteGroups)
    IN  [ready |-> TRUE,
         store |-> [st EXCEPT
                     !.unlocks = GrantRecords(st.unlocks, site, st.siteGroups, rec),
                     !.timeLog = Append(st.timeLog, LogEntry(site, t, FALSE, None))],
         removeRuleIds |-> RuleIdsOf(st.blockedSites,
                              IF gi > 0 THEN st.siteGroups[gi].sites ELSE <<site>>),
         alarmName |-> GrantAlarmName(site, st.siteGroups),
         delay |-> cooldown * MsPerMinute]

unlockSite(site, st, t) ==
    LET cost == getEffectiveCost(site, st.siteGroups, st.siteSettings)
        baseline == getCostBaseline(site, st.siteGroups, st.siteSettings)
        ready == isCostRequirementMet(st.tasks, st.config, cost, Some(baseline))
        cooldown == normalizeConfig(st.config).cooldownMinutes
        rec == [unlockedAt |-> t, expiresAt |-> t + cooldown * MsPerMinute]
        gi == resolveGroupForSite(site, st.siteGroups)
        members == IF gi > 0 THEN st.siteGroups[gi].sites ELSE <<site>>
        st1 == [st EXCEPT
                  !.unlocks = GrantRecords(st.unlocks, site, st.siteGroups, rec),
                  !.timeLog = Append(st.timeLog, LogEntry(site, t, FALSE, None))]
    IN  IF ~ready
        THEN [ready |-> FALSE, store |-> st, removeRuleIds |-> {},
              alarmName |-> "", delay |-> 0]
        ELSE [ready |-> TRUE,
              store |-> StampBaseline(st1, site, gi, cost),
              removeRuleIds |-> RuleIdsOf(st.blockedSites, members),
              alarmName |-> GrantAlarmName(site, st.siteGroups),
              delay |-> cooldown * MsPerMinute]

PauseDurations == {5, 15, 30}

\* the justification argument: a string, or a value of another type
Str(text) == [type |-> "string", text |-> text]
Undefined == [type |-> "undefined", text |-> <<>>]

\* pauseSite up to its storage write
pauseSite(site, durationMinutes, justification, st, t) ==
    LET duration == IF durationMinutes \in PauseDurations THEN durationMinutes ELSE 5
        rec == [unlockedAt |-> t, expiresAt |-> t + duration * MsPerMinute]
        gi == resolveGroupForSite(site, st.siteGroups)
        members == IF gi > 0 THEN st.siteGroups[gi].sites ELSE <<site>>
    IN  IF \/ justification.type # "string"
           \/ TextLength(TrimText(justification.text)) < PAUSE_MIN_JUSTIFICATION
        THEN [ready |-> FALSE, store |-> st, removeRuleIds |-> {},
              alarmName |-> "", delay |-> 0]
        ELSE [ready |-> TRUE,
              store |-> [st EXCEPT
                  !.unlocks = GrantRecords(st.unlocks, site, st.siteGroups, rec),
                  !.timeLog = Append(st.timeLog,
                                 LogEntry(site, t, TRUE, TrimText(justification.text)))],
              removeRuleIds |-> RuleIdsOf(st.blockedSites, members),
              alarmName |-> GrantAlarmName(site, st.siteGroups),
              delay |-> duration * MsPerMinute]

(***************************************************************************)
(* Relock.                                                                 *)
(***************************************************************************)
\* timeLog.slice().reverse().find(e => e.site === s && !e.lockedAt), as an
\* index into timeLog; 0 when there is none
OpenEntry(tl, s) ==
    LET open == {i \in 1..Len(tl) : tl[i].site = s /\ tl[i].lockedAt = None}
    IN  IF open = {} THEN 0 ELSE CHOOSE i \in open : \A j \in open : j <= i

\* one iteration of the loop over sitesToRelock
RelockOneKeepRecord(st, s, t) ==
    LET i == OpenEntry(st.timeLog, s)
    IN  [st EXCEPT
           !.timeLog = IF i = 0 THEN @ ELSE [@ EXCEPT ![i].lockedAt = Some(t)],
           !.siteSettings = WithSettings(@, s,
                               [SettingsOf(@, s) EXCEPT !.lastLockedAt = Some(t)])]

RelockOne(st, s, t) ==
    LET i == OpenEntry(st.timeLog, s)
    IN  [st EXCEPT
           !.unlocks = Delete(@, s),
           !.timeLog = IF i = 0 THEN @ ELSE [@ EXCEPT ![i].lockedAt = Some(t)],
           !.siteSettings = WithSettings(@, s,
                               [SettingsOf(@, s) EXCEPT !.lastLockedAt = Some(t)])]

RECURSIVE RelockLoop(_, _, _)
RelockLoop(st, sites, t) ==
    IF sites = <<>> THEN st
    ELSE RelockLoop(RelockOne(st, Head(sites), t), Tail(sites), t)

\* relockSite up to its storage write: the store it writes
relockSite(target, st, t) ==
    IF IsGroupKey(target)
    THEN LET gi == FindGroup(GroupIdOfKey(target), st.siteGroups)
             st1 == [st EXCEPT !.unlocks = Delete(@, target)]
         IN  IF gi > 0
             THEN RelockLoop([st1 EXCEPT !.siteGroups[gi].lastLockedAt = Some(t)],
                             st.siteGroups[gi].sites, t)
             ELSE st1
    ELSE LET gi == resolveGroupForSite(target, st.siteGroups)
         IN  IF gi > 0
             THEN RelockLoop(
                    [st EXCEPT !.unlocks = Delete(@, GroupKey(st.siteGroups[gi].id)),
                               !.siteGroups[gi].lastLockedAt = Some(t)],
                    st.siteGroups[gi].sites, t)
             ELSE RelockLoop(st, <<target>>, t)

(***************************************************************************)
(* Alarms: name -> the instant the alarm is due.                           *)
(***************************************************************************)
NoAlarms == [n \in {} |-> 0]
CreateAlarm(al, name, when) ==
    [n \in (DOMAIN al) \cup {name} |-> IF n = name THEN when ELSE al[n]]
ClearAlarm(al, name) == [n \in (DOMAIN al) \ {name} |-> al[n]]

HalfMinute == MsPerMinute \div 2
QuarterMinute == MsPerMinute \div 4

\* Math.max((expiresAt - now) / 60000, 0.5) minutes, in milliseconds
RecoveryDelay(expiresAt, t) == Max(expiresAt - t, HalfMinute)

\* the per-site keys marked handled when a live group key is processed
HandledBy(u, e) ==
    {u[i].key : i \in {j \in 1..Len(u) :
        ~IsGroupKey(u[j].key) /\ u[j].expiresAt = e.expiresAt}}

\* recreateRelockAlarms: the loop over Object.entries(unlocks), entries being
\* the snapshot read on entry; acc = [store, alarms, handled]
RECURSIVE RecoveryLoop(_, _, _, _)
RecoveryLoop(entries, i, acc, t) ==
    IF i > Len(entries) THEN acc
    ELSE LET e == entries[i]
         IN  IF ~IsGroupKey(e.key) /\ e.key \in acc.handled
             THEN RecoveryLoop(entries, i + 1, acc, t)
             ELSE IF e.expiresAt > t
             THEN RecoveryLoop(entries, i + 1,
                    [acc EXCEPT
                       !.alarms = CreateAlarm(@, AlarmName(e.key),
                                              t + RecoveryDelay(e.expiresAt, t)),
                       !.handled = IF IsGroupKey(e.key)
                                   THEN @ \cup HandledBy(entries, e) ELSE @],
                    t)
             ELSE RecoveryLoop(entries, i + 1,
                    [acc EXCEPT !.store = relockSite(e.key, @, t)], t)

recreateRelockAlarms(st, al, t) ==
    RecoveryLoop(st.unlocks, 1, [store |-> st, alarms |-> al, handled |-> {}], t)

(***************************************************************************)
(* handleMessage: the registry and settings cases, as store -> store.      *)
(***************************************************************************)
UntitledGroup == <<"U", "n", "t", "i", "t", "l", "e", "d", " ", "G", "r", "o", "u", "p">>

\* msg.cost >= 1 ? Math.round(msg.cost) : null
CostOf(c) == IF c # None /\ Val(c) >= 1 THEN c ELSE None

addSite(site, st, t) ==
    IF Includes(st.blockedSites, site) THEN st
    ELSE [st EXCEPT
            !.blockedSites = Append(@, site),
            !.siteSettings = WithSettings(@, site,
                                [SettingsOf(@, site) EXCEPT !.lastLockedAt = Some(t)])]

WithoutSite(g, site) == [g EXCEPT !.sites = SelectSeq(@, LAMBDA s : s # site)]

removeSite(site, st) ==
    [st EXCEPT
       !.blockedSites = SelectSeq(@, LAMBDA s : s # site),
       !.siteGroups = SelectSeq(
                        [i \in 1..Len(@) |-> WithoutSite(@[i], site)],
                        LAMBDA g : Len(g.sites) > 0),
       !.siteSettings = WithoutSettings(@, site)]

\* no member is ever found in another group
ConflictNone(sites, groups, except) == 0

\* the first member already claimed by a group other than `except`, if any
Conflict(sites, groups, except) ==
    LET bad == {i \in 1..Len(sites) :
                   LET gi == resolveGroupForSite(sites[i], groups)
                   IN  gi > 0 /\ groups[gi].id # except}
    IN  IF bad = {} THEN 0 ELSE CHOOSE i \in bad : \A j \in bad : i <= j

RECURSIVE PushMissing(_, _)
PushMissing(list, sites) ==
    IF sites = <<>> THEN list
    ELSE PushMissing(IF Includes(list, Head(sites)) THEN list
                     ELSE Append(list, Head(sites)), Tail(sites))

addGroup(id, name, sites, cost, st, t) ==
    IF Conflict(sites, st.siteGroups, "") > 0 THEN st
    ELSE [st EXCEPT
            !.siteGroups = Append(@,
                [id |-> id,
                 name |-> Trim(IF name = <<>> THEN UntitledGroup ELSE name),
                 sites |-> sites, cost |-> CostOf(cost),
                 costBaseline |-> None, lastLockedAt |-> Some(t)]),
            !.blockedSites = PushMissing(@, sites)]

\* name, sites, cost: None when the message leaves the field undefined
updateGroup(id, name, sites, cost, st) ==
    LET gi == FindGroup(id, st.siteGroups)
        newSites == IF sites = None THEN st.siteGroups[gi].sites ELSE Val(sites)
    IN  IF gi = 0 THEN st
        ELSE IF Conflict(newSites, st.siteGroups, id) > 0 THEN st
        ELSE [st EXCEPT
                !.siteGroups[gi].name = IF name = None THEN @ ELSE Trim(Val(name)),
                !.siteGroups[gi].sites = newSites,
                !.siteGroups[gi].cost = IF cost = None THEN @ ELSE CostOf(cost)]

removeGroup(id, st) ==
    LET gi == FindGroup(id, st.siteGroups)
    IN  IF gi = 0 THEN st
        ELSE [st EXCEPT
                !.unlocks = Delete(@, GroupKey(id)),
                !.siteGroups = SubSeq(@, 1, gi - 1) \o SubSeq(@, gi + 1, Len(@))]

updateSiteSettings(site, cost, st) ==
    [st EXCEPT !.siteSettings =
        WithSettings(@, site,
            IF cost = None THEN SettingsOf(@, site)
            ELSE [SettingsOf(@, site) EXCEPT !.cost = CostOf(cost)])]

\* normalizeConfig({ ...config, ...msg.config }); a patch is a set of fields
updateConfig(patch, st) ==
    [st EXCEPT !.config =
        normalizeConfig([f \in DOMAIN @ |->
            IF f \in DOMAIN patch THEN patch[f] ELSE @[f]])]

(***************************************************************************)
(* Inputs of the lock machine.                                             *)
(***************************************************************************)
\* n tasks of the default section, the first k of them completed
TaskList(n, k) == [i \in 1..n |-> Task(i, i <= k, <<>>)]
SectionedList == <<Task(1, TRUE, Work), Task(2, FALSE, Home)>>
ConfigPatches ==
    {[unlockMode |-> "section", unlockSection |-> <<" ", "W">>],
     [unlockMode |-> "all"]}

CostInputs == {None, Some(0), Some(1)}
GroupNames == {<<>>}
GroupSiteLists == {<<"a.com">>, <<"b.com">>, <<"a.com", "b.com">>}

Justifications ==
    {Str(<<Run(" ", 1), Run("x", PAUSE_MIN_JUSTIFICATION - 1), Run(" ", 1)>>),
     Str(<<Run(" ", 1), Run("x", PAUSE_MIN_JUSTIFICATION)>>)}
PauseInputs == {30}

(***************************************************************************)
(* Requests handled one at a time: each action is one handler run to       *)
(* completion, together with the rule rebuild its storage write triggers.  *)
(***************************************************************************)
Ok == [ok |-> TRUE, error |-> "", unlock |-> None]
OkUnlock(rec) == [ok |-> TRUE, error |-> "", unlock |-> Some(rec)]
Fail(error) == [ok |-> FALSE, error |-> error, unlock |-> None]

\* _syncBlockingRulesImpl: remove every installed rule, add the built ones
Rebuild(installed, st, t) ==
    UpdateDynamicRules(installed, {r.id : r \in installed},
                       BuildRules(st.blockedSites, st.unlocks, t))

\* storage.onChanged: a rebuild when blockedSites or unlocks changed
OnChanged(old, new, installed, t) ==
    IF old.blockedSites # new.blockedSites \/ old.unlocks # new.unlocks
    THEN Rebuild(installed, new, t)
    ELSE installed

Commit(st) ==
    /\ blockedSites' = st.blockedSites
    /\ tasks' = st.tasks
    /\ config' = st.config
    /\ streak' = st.streak
    /\ timeLog' = st.timeLog
    /\ unlocks' = st.unlocks
    /\ siteGroups' = st.siteGroups
    /\ siteSettings' = st.siteSettings

Idle == UNCHANGED <<handlers, rebuilds, log, doneAtUnlock, syncStore, localBackups>>

\* chrome.storage.sync with neither the meta key nor a chunk key
NoSync == [meta |-> None, chunks |-> [i \in {} |-> <<>>]]

\* the history of cost-mode unlocks: every site the unlock covers
Recorded(site, r) ==
    LET gi == resolveGroupForSite(site, siteGroups)
        members == IF gi > 0 THEN Range(siteGroups[gi].sites) \cup {site} ELSE {site}
        cost == getEffectiveCost(site, siteGroups, siteSettings)
    IN  IF r.ready /\ cost # None
        THEN [s \in Sites |-> IF s \in members THEN Some(CompletedCount(tasks))
                                ELSE doneAtUnlock[s]]
        ELSE doneAtUnlock


\* a handler that only writes the store
Handle(st, res) ==
    /\ Commit(st)
    /\ rules' = OnChanged(Store, st, rules, now)
    /\ result' = res
    /\ UNCHANGED <<alarms, now, nextGroupId>>
    /\ Idle

\* after granting an unlock or a pause: the direct removal of the members'
\* rule ids and the rebuild started by storage.onChanged, in either order
Granted(site, r, st, done) ==
    /\ Commit(st)
    /\ rules' \in
         {UpdateDynamicRules(OnChanged(Store, st, rules, now), r.removeRuleIds, {}),
          OnChanged(Store, st, UpdateDynamicRules(rules, r.removeRuleIds, {}), now)}
    /\ alarms' = CreateAlarm(alarms, r.alarmName, now + r.delay)
    /\ result' = OkUnlock(Lookup(r.store.unlocks, site))
    /\ doneAtUnlock' = done
    /\ UNCHANGED <<now, nextGroupId, handlers, rebuilds, log, syncStore, localBackups>>

Unlock(site) ==
    LET r == unlockSite(site, Store, now)
    IN  IF r.ready
        THEN /\ Len(timeLog) < MaxLog
             /\ Granted(site, r,
                        [r.store EXCEPT !.streak = updateStreak(r.store, now)],
                        Recorded(site, r))
        ELSE /\ Handle(r.store,
                       Fail("Unlock requirement not completed"))

Pause(site, duration, justification) ==
    LET r == pauseSite(site, duration, justification, Store, now)
    IN  IF r.ready
        THEN /\ Len(timeLog) < MaxLog
             /\ Granted(site, r, r.store, doneAtUnlock)
        ELSE /\ Handle(r.store,
                       Fail("Justification must be at least 120 characters"))

\* relockSite: the write, then the awaited rebuild
Relocked(st, al) ==
    /\ Commit(st)
    /\ rules' = Rebuild(rules, st, now)
    /\ alarms' = al
    /\ result' = Ok
    /\ UNCHANGED <<now, nextGroupId>>
    /\ Idle

\* handleMessage "relock": clear the group alarm and the site alarm, relock
Relock(target) ==
    LET gi == resolveGroupForSite(target, siteGroups)
        al1 == IF gi > 0 THEN ClearAlarm(alarms, AlarmName(GroupKey(siteGroups[gi].id)))
               ELSE alarms
    IN  Relocked(relockSite(target, Store, now),
                 ClearAlarm(al1, AlarmName(target)))

\* chrome.alarms.onAlarm: a due alarm fires once and is gone
AlarmFire(name) ==
    /\ name \in DOMAIN alarms
    /\ alarms[name] <= now
    /\ Relocked(relockSite(KeyOfAlarm(name), Store, now), ClearAlarm(alarms, name))

\* onInstalled / onStartup: the stored state is well formed, so
\* ensureLocalDefaults writes nothing; then the rebuild and alarm recovery.
\* Alarms survive a browser restart or are lost (an extension update).
Startup(alarmsKept) ==
    LET r == recreateRelockAlarms(Store, IF alarmsKept THEN alarms ELSE NoAlarms, now)
    IN  /\ Commit(r.store)
        /\ rules' = Rebuild(rules, r.store, now)
        /\ alarms' = r.alarms
        /\ result' = Ok
        /\ UNCHANGED <<now, nextGroupId>>
        /\ Idle

AddSite(site) ==
    Handle(addSite(site, Store, now), Ok)

RemoveSite(site) ==
    Handle(removeSite(site, Store), Ok)

UpdateTasks(list) ==
    Handle([Store EXCEPT !.tasks = list], Ok)

UpdateConfig(patch) ==
    Handle(updateConfig(patch, Store), Ok)

UpdateSiteSettings(site, cost) ==
    Handle(updateSiteSettings(site, cost, Store), Ok)

\* handleMessage "addGroup", while fewer than `limit` groups have been made
AddGroupUpTo(limit, name, sites, cost) ==
    LET id == GroupIds[nextGroupId + 1]
        c == Conflict(sites, siteGroups, "")
    IN  /\ nextGroupId < limit
        /\ Commit(addGroup(id, name, sites, cost, Store, now))
        /\ rules' = OnChanged(Store, addGroup(id, name, sites, cost, Store, now),
                              rules, now)
        /\ result' = IF c > 0 THEN Fail("is already in group") ELSE Ok
        /\ nextGroupId' = IF c > 0 THEN nextGroupId ELSE nextGroupId + 1
        /\ UNCHANGED <<alarms, now>>
        /\ Idle

AddGroup(name, sites, cost) == AddGroupUpTo(MaxGroups, name, sites, cost)

UpdateGroup(id, name, sites, cost) ==
    LET gi == FindGroup(id, siteGroups)
        newSites == IF sites = None THEN siteGroups[gi].sites ELSE Val(sites)
    IN  Handle(updateGroup(id, name, sites, cost, Store),
               IF gi = 0 THEN Fail("Group not found")
               ELSE IF Conflict(newSites, siteGroups, id) > 0
               THEN Fail("is already in group") ELSE Ok)

RemoveGroup(id) ==
    /\ Commit(removeGroup(id, Store))
    /\ rules' = OnChanged(Store, removeGroup(id, Store), rules, now)
    /\ alarms' = IF FindGroup(id, siteGroups) = 0 THEN alarms
                 ELSE ClearAlarm(alarms, AlarmName(GroupKey(id)))
    /\ result' = IF FindGroup(id, siteGroups) = 0 THEN Fail("Group not found") ELSE Ok
    /\ UNCHANGED <<now, nextGroupId>>
    /\ Idle

(***************************************************************************)
(* The clock.  It moves to the instant an unlock expires or an alarm is    *)
(* due, or to a quarter minute before an expiry, up to MaxMinutes.         *)
(***************************************************************************)
Instants ==
    LET exp == {unlocks[i].expiresAt : i \in 1..Len(unlocks)}
        due == {alarms[n] : n \in DOMAIN alarms}
    IN  {t \in exp \cup due \cup {e - QuarterMinute : e \in exp} :
            t <= MaxMinutes * MsPerMinute}

Tick(t) ==
    /\ t > now
    /\ now' = t
    /\ UNCHANGED <<storeVars, alarms, rules, nextGroupId, result>>
    /\ Idle

\* a promise of syncBlockingRules: `after` is the promise it was chained on
\* (0: the settled Promise.resolve() _syncQueue starts as)
Promise(after) ==
    [after |-> after, pc |-> "pending", blockedSites |-> <<>>, unlocks |-> <<>>,
     existing |-> {}]

NoRebuilds == [syncQueue |-> 0, promises |-> <<>>]

Init ==
    /\ blockedSites = <<>>
    /\ tasks = <<>>
    /\ config = DEFAULT_CONFIG
    /\ streak = DEFAULT_STREAK
    /\ timeLog = <<>>
    /\ unlocks = <<>>
    /\ siteGroups = <<>>
    /\ siteSettings = [s \in {} |-> EmptySettings]
    /\ alarms = NoAlarms
    /\ rules = {}
    /\ now = 0
    /\ nextGroupId = 0
    /\ result = Ok
    /\ handlers = {}
    /\ rebuilds = NoRebuilds
    /\ log = <<>>
    /\ doneAtUnlock = [s \in Sites |-> None]
    /\ ops = 0
    /\ syncStore = NoSync
    /\ localBackups = <<>>

(***************************************************************************)
(* The lock machine: groups, unlock, pause, relock, alarms and restarts,   *)
(* with the task list either meeting the requirement or not and no unlock  *)
(* cost configured.  A run takes at most MaxOps steps.                     *)
(***************************************************************************)
PlainTaskLists == {<<>>, TaskList(1, 1)}

Step(limit) == ops < limit /\ ops' = ops + 1

Next ==
    \/ \E site \in Sites : Step(MaxOps) /\ AddSite(site)
    \/ \E site \in Sites : Step(MaxOps) /\ RemoveSite(site)
    \/ \E list \in PlainTaskLists : Step(MaxOps) /\ UpdateTasks(list)
    \/ \E name \in GroupNames, sites \in GroupSiteLists :
          Step(MaxOps) /\ AddGroup(name, sites, None)
    \/ \E id \in GroupIdSet, sites \in GroupSiteLists :
          Step(MaxOps) /\ UpdateGroup(id, None, Some(sites), None)
    \/ \E id \in GroupIdSet : Step(MaxOps) /\ RemoveGroup(id)
    \/ \E site \in Sites : Step(MaxOps) /\ Unlock(site)
    \/ \E site \in Sites, d \in PauseInputs, j \in Justifications :
          Step(MaxOps) /\ Pause(site, d, j)
    \/ \E target \in Keys : Step(MaxOps) /\ Relock(target)
    \/ \E name \in AlarmNames : Step(MaxOps) /\ AlarmFire(name)
    \/ \E kept \in BOOLEAN : Step(MaxOps) /\ Startup(kept)
    \/ \E t \in Instants : Step(MaxOps) /\ Tick(t)

Spec == Init /\ [][Next]_vars

(***************************************************************************)
(* The cost machine: the same handlers with unlock costs and task progress *)
(* varied, at one instant.  A run takes at most MaxCostOps steps.          *)
(***************************************************************************)
CostTaskLists == {TaskList(MaxTasks, k) : k \in 1..MaxTasks} \cup {SectionedList}

NextCost ==
    \/ \E list \in CostTaskLists : Step(MaxCostOps) /\ UpdateTasks(list)
    \/ \E patch \in ConfigPatches : Step(MaxCostOps) /\ UpdateConfig(patch)
    \/ \E cost \in CostInputs : Step(MaxCostOps) /\ UpdateSiteSettings("a.com", cost)
    \/ \E cost \in CostInputs : Step(MaxCostOps) /\ AddGroup(<<>>, <<"a.com">>, cost)
    \/ \E id \in GroupIdSet : Step(MaxCostOps) /\ RemoveGroup(id)
    \/ Step(MaxCostOps) /\ Unlock("a.com")
    \/ Step(MaxCostOps) /\ Relock("a.com")

SpecCost == Init /\ [][NextCost]_vars

(***************************************************************************)
(* The evaluators on their own: the task list and the config are drawn     *)
(* from bounded sets, and each step evaluates the requirement, leaving the *)
(* inputs and the outcome in `result`.                                     *)
(***************************************************************************)
EvalSections == {<<>>, Work, DEFAULT_SECTION}
EvalTasks ==
    {[i \in 1..Len(c) |-> Task(i, c[i][1], c[i][2])] :
        c \in SeqsUpTo(BOOLEAN \X EvalSections, MaxEvalTasks)}
EvalTaskLists ==
    EvalTasks \cup {TaskList(n, k) : n \in 0..MaxCostTasks, k \in 0..MaxCostTasks}
EvalModes == {"all", "section", "any"}
EvalConfigSections ==
    {<<>>, <<" ">>, Work, <<" ", "W", " ">>, DEFAULT_SECTION, Home}
EvalConfigs ==
    {[DEFAULT_CONFIG EXCEPT !.unlockMode = m, !.unlockSection = sec] :
        m \in EvalModes, sec \in EvalConfigSections}
EvalCosts == {None, Some(0 - 1), Some(0), Some(1), Some(2)}
EvalBaselines == {None, Some(0), Some(3)}

InitEval ==
    /\ tasks \in EvalTaskLists
    /\ config \in EvalConfigs
    /\ blockedSites = <<>>
    /\ streak = DEFAULT_STREAK
    /\ timeLog = <<>>
    /\ unlocks = <<>>
    /\ siteGroups = <<>>
    /\ siteSettings = [s \in {} |-> EmptySettings]
    /\ alarms = NoAlarms
    /\ rules = {}
    /\ now = 0
    /\ nextGroupId = 0
    /\ result = Ok
    /\ handlers = {}
    /\ rebuilds = NoRebuilds
    /\ log = <<>>
    /\ doneAtUnlock = [s \in Sites |-> None]
    /\ ops = 0
    /\ syncStore = NoSync
    /\ localBackups = <<>>

Evaluated(outcome) ==
    /\ result' = outcome
    /\ UNCHANGED <<storeVars, alarms, rules, now, nextGroupId, ops>>
    /\ Idle

EvaluatePlain ==
    Evaluated([kind |-> "plain",
               ready |-> isUnlockRequirementMet(tasks, config),
               popup |-> getUnlockRequirement(tasks, config)])

EvaluateCost(cost, baseline) ==
    Evaluated([kind |-> "cost", cost |-> cost, baseline |-> baseline,
               ready |-> isCostRequirementMet(tasks, config, cost, baseline)])

NextEval ==
    \/ EvaluatePlain
    \/ \E cost \in EvalCosts, baseline \in EvalBaselines : EvaluateCost(cost, baseline)

SpecEval == InitEval /\ [][NextEval]_vars

IsOutcome(kind) == "kind" \in DOMAIN result /\ result.kind = kind

\* the tasks of the list that belong to a section; a task without a section
\* belongs to "Tasks"
TasksOf(list, section) ==
    {i \in 1..Len(list) :
        (IF list[i].section = <<>> THEN DEFAULT_SECTION ELSE list[i].section) = section}

\* C2: the plain evaluator is ready exactly when, in section mode, the
\* trimmed configured section is non-empty, has at least one task and all
\* of its tasks are completed, and in any other mode the list is non-empty
\* and all of its tasks are completed; the popup's copy agrees.
C2_PlainEvaluator ==
    IsOutcome("plain") =>
        /\ result.ready =
              IF config.unlockMode = "section"
              THEN /\ Trim(config.unlockSection) # <<>>
                   /\ TasksOf(tasks, Trim(config.unlockSection)) # {}
                   /\ \A i \in TasksOf(tasks, Trim(config.unlockSection)) :
                         tasks[i].completed
              ELSE /\ tasks # <<>>
                   /\ \A i \in 1..Len(tasks) : tasks[i].completed
        /\ result.popup.ready = result.ready

\* section mode reports ready although a task of another section is open
C2_Witness ==
    /\ IsOutcome("plain")
    /\ config.unlockMode = "section"
    /\ config.unlockSection = <<" ", "W", " ">>
    /\ result.ready
    /\ \E i \in 1..Len(tasks) : tasks[i].section = <<>> /\ ~tasks[i].completed

\* C3: with a cost of at least 1 the evaluator is ready exactly when the
\* completed count minus the baseline reaches the cost, whatever the mode
\* and the section; with no cost, or a cost of 0 or less, it is the plain
\* evaluator.
C3_CostEvaluator ==
    IsOutcome("cost") =>
        IF result.cost # None /\ Val(result.cost) >= 1
        THEN result.ready =
               (Cardinality({i \in 1..Len(tasks) : tasks[i].completed})
                  - (IF result.baseline = None THEN 0 ELSE Val(result.baseline))
                >= Val(result.cost))
        ELSE result.ready = isUnlockRequirementMet(tasks, config)

\* baseline 3, cost 2: ready with 5 completed tasks, although the list is
\* unfinished and section mode has no section to look at
C3_Witness ==
    /\ IsOutcome("cost")
    /\ result.cost = Some(2)
    /\ result.baseline = Some(3)
    /\ CompletedCount(tasks) = 5
    /\ Len(tasks) > 5
    /\ config.unlockMode = "section"
    /\ config.unlockSection = <<>>
    /\ result.ready

(***************************************************************************)
(* Claims about unlock, pause and relock.                                  *)
(***************************************************************************)
\* the requirement for `site` as the stored state has it: cost mode when a
\* cost is in effect for the site or its group, the plain evaluator otherwise
RequirementMet(site) ==
    LET gi == resolveGroupForSite(site, siteGroups)
        own == IF site \in DOMAIN siteSettings THEN siteSettings[site] ELSE EmptySettings
        cost == IF gi > 0 /\ siteGroups[gi].cost # None THEN siteGroups[gi].cost
                ELSE own.cost
        baseline == IF gi > 0 /\ siteGroups[gi].costBaseline # None
                    THEN Val(siteGroups[gi].costBaseline)
                    ELSE IF own.costBaseline # None THEN Val(own.costBaseline) ELSE 0
    IN  IF cost # None
        THEN CompletedCount(tasks) - baseline >= Val(cost)
        ELSE isUnlockRequirementMet(tasks, config)

\* C1: an unlock request made while the requirement is not met answers
\* {ok: false, error} and leaves the unlock records, the time log, the
\* groups and site settings (with their cost baselines), the alarms and
\* the installed rules as they were.
C1_RefusedUnlockChangesNothing ==
    [][\A site \in Sites :
          (Unlock(site) /\ ~RequirementMet(site)) =>
              /\ result'.ok = FALSE
              /\ result'.error # ""
              /\ result'.unlock = None
              /\ UNCHANGED <<unlocks, timeLog, siteGroups, siteSettings, alarms, rules>>]_vars

\* a refused cost-mode unlock, with an unlock record and an alarm in place
C1_Witness ==
    /\ result = Fail("Unlock requirement not completed")
    /\ ~RequirementMet("a.com")
    /\ getEffectiveCost("a.com", siteGroups, siteSettings) # None
    /\ HasKey(unlocks, "a.com")
    /\ DOMAIN alarms # {}

\* C4: a cost-mode unlock of a site that has been unlocked in cost mode
\* before and relocked since is granted only when the completed count has
\* risen by at least the cost above its value at the previous unlock.
C4_FreshProgress ==
    [][\A site \in Sites :
          LET cost == getEffectiveCost(site, siteGroups, siteSettings)
          IN  (/\ Unlock(site)
               /\ result'.ok
               /\ cost # None
               /\ doneAtUnlock[site] # None
               /\ ~HasKey(unlocks, site)) =>
                  CompletedCount(tasks) >= Val(doneAtUnlock[site]) + Val(cost)]_vars

\* the members of the group of `site`, the site alone when it has no group
MembersOf(site) ==
    LET gi == resolveGroupForSite(site, siteGroups)
    IN  IF gi > 0 THEN Range(siteGroups[gi].sites) ELSE {site}

\* the keys a grant for `site` has to write, and the alarm it has to set
GrantKeys(site) ==
    LET gi == resolveGroupForSite(site, siteGroups)
    IN  IF gi > 0 THEN MembersOf(site) \cup {GroupKey(siteGroups[gi].id)} ELSE {site}

GrantAlarm(site) ==
    LET gi == resolveGroupForSite(site, siteGroups)
    IN  IF gi > 0 THEN "relock-group:" \o siteGroups[gi].id ELSE "relock-" \o site

IsGrant(site) ==
    /\ \/ Unlock(site)
       \/ \E d \in PauseInputs, j \in Justifications : Pause(site, d, j)
    /\ result'.ok

\* C5: a granted unlock or pause of a site writes, in its one storage
\* write, a record for every member of the site's group and one under the
\* group key (for a site without a group: its own record), all with the
\* same unlockedAt and expiresAt, and sets exactly one alarm, named after
\* the group (after the site when it has no group).
C5_GroupGrant ==
    [][\A site \in Sites :
          IsGrant(site) =>
              /\ \A k \in GrantKeys(site) :
                    /\ HasKey(unlocks', k)
                    /\ Lookup(unlocks', k).unlockedAt = now
                    /\ Lookup(unlocks', k).expiresAt =
                          Lookup(unlocks', site).expiresAt
              /\ Lookup(unlocks', site).expiresAt > now
              /\ \A k \in Keys \ GrantKeys(site) :
                    /\ HasKey(unlocks', k) = HasKey(unlocks, k)
                    /\ HasKey(unlocks, k) => Lookup(unlocks', k) = Lookup(unlocks, k)
              /\ DOMAIN alarms' = DOMAIN alarms \cup {GrantAlarm(site)}
              /\ alarms'[GrantAlarm(site)] = Lookup(unlocks', site).expiresAt
              /\ \A n \in DOMAIN alarms \ {GrantAlarm(site)} : alarms'[n] = alarms[n]]_vars

\* a pause of one member of a two-member group has been granted
C5_Witness ==
    /\ result.ok
    /\ result.unlock # None
    /\ \E i \in 1..Len(siteGroups) :
          /\ Len(siteGroups[i].sites) = 2
          /\ \A k \in Range(siteGroups[i].sites) \cup {GroupKey(siteGroups[i].id)} :
                HasKey(unlocks, k) /\ Lookup(unlocks, k).unlockedAt = now
          /\ AlarmName(GroupKey(siteGroups[i].id)) \in DOMAIN alarms
    /\ timeLog # <<>>
    /\ timeLog[Len(timeLog)].paused

\* what a relock addressed to `key` has to leave behind
RelockedState(key) ==
    LET gi == IF key \in Sites THEN resolveGroupForSite(key, siteGroups)
              ELSE FindGroup(GroupIdOfKey(key), siteGroups)
        affected == IF gi > 0 THEN Range(siteGroups[gi].sites)
                    ELSE IF key \in Sites THEN {key} ELSE {}
    IN  /\ ~HasKey(unlocks', key)
        /\ \A s \in affected :
              /\ ~HasKey(unlocks', s)
              /\ s \in DOMAIN siteSettings'
              /\ siteSettings'[s].lastLockedAt = Some(now)
        /\ gi > 0 =>
              /\ ~HasKey(unlocks', GroupKey(siteGroups[gi].id))
              /\ siteGroups'[gi].lastLockedAt = Some(now)

\* C6: a relock addressed to a site or to a group key, requested or fired
\* by an alarm, leaves no record for that key, none for any member of the
\* group concerned nor under its group key, and stamps lastLockedAt of
\* the group and of each affected site with the relock time.
C6_RelockRemovesRecords ==
    [][\A key \in Keys :
          (Relock(key) \/ AlarmFire(AlarmName(key))) => RelockedState(key)]_vars

\* a group alarm has fired at expiry and relocked both members
C6_Witness ==
    /\ now > 0
    /\ unlocks = <<>>
    /\ alarms = NoAlarms
    /\ \E i \in 1..Len(siteGroups) :
          /\ Len(siteGroups[i].sites) = 2
          /\ siteGroups[i].lastLockedAt = Some(now)
          /\ \A s \in Range(siteGroups[i].sites) :
                s \in DOMAIN siteSettings /\ siteSettings[s].lastLockedAt = Some(now)
    /\ timeLog # <<>>
    /\ timeLog[1].lockedAt = Some(now)

\* the pending alarms whose relock would delete the record under `key`
CoveringAlarms(key, al) ==
    {n \in DOMAIN al : ~HasKey(relockSite(KeyOfAlarm(n), Store, now).unlocks, key)}

\* C7: no unlock record is in storage without a pending alarm whose
\* relock removes it.
C7_RecordsCovered ==
    \A i \in 1..Len(unlocks) : CoveringAlarms(unlocks[i].key, alarms) # {}

\* C10: alarm recovery at a start relocks every record that has expired
\* and creates no alarm for it, and leaves every record that has not
\* expired with a pending alarm that relocks it; an alarm it creates is
\* due after the remaining time, and no sooner than half a minute.
C10_AlarmRecovery ==
    [][\A kept \in BOOLEAN :
          Startup(kept) =>
              \A i \in 1..Len(unlocks) :
                  LET e == unlocks[i]
                      before == IF kept THEN alarms ELSE NoAlarms
                      name == AlarmName(e.key)
                      made == name \in DOMAIN alarms' /\
                              (name \notin DOMAIN before \/ alarms'[name] # before[name])
                  IN  IF e.expiresAt <= now
                      THEN ~HasKey(unlocks', e.key) /\ ~made
                      ELSE /\ HasKey(unlocks', e.key) =>
                                \E n \in DOMAIN alarms' :
                                    ~HasKey(relockSite(KeyOfAlarm(n), Store', now).unlocks,
                                            e.key)
                           /\ made =>
                                alarms'[name] =
                                    now + Max(e.expiresAt - now, MsPerMinute \div 2)]_vars

\* the unlock map holds the records of a group unlock of group gi: a record
\* for every member followed by the one under the group key, all with the
\* same expiresAt, not yet reached at instant t
GroupUnlockRecords(u, gi, t) ==
    LET gk == GroupKey(siteGroups[gi].id)
    IN  /\ HasKey(u, gk)
        /\ Lookup(u, gk).expiresAt > t
        /\ \A s \in Range(siteGroups[gi].sites) :
              /\ HasKey(u, s)
              /\ Lookup(u, s).expiresAt = Lookup(u, gk).expiresAt
              /\ \E i, j \in 1..Len(u) : u[i].key = s /\ u[j].key = gk /\ i < j

\* C11: alarm recovery run with no alarm pending, on an unlock map that
\* holds the records of a group unlock (the members' keys, then the group
\* key, all with the same unexpired expiresAt), creates the group's alarm
\* and no alarm named after a member.
C11_OneAlarmPerGroup ==
    [][Startup(FALSE) =>
          \A gi \in 1..Len(siteGroups) :
              GroupUnlockRecords(unlocks, gi, now) =>
                  /\ AlarmName(GroupKey(siteGroups[gi].id)) \in DOMAIN alarms'
                  /\ \A s \in Range(siteGroups[gi].sites) :
                        AlarmName(s) \notin DOMAIN alarms']_vars

\* the keys whose relock ends the unlock of `site`: the site itself and,
\* when it is in a group, the group key and every member of the group
RelockTargets(site) ==
    LET gi == resolveGroupForSite(site, siteGroups)
    IN  IF gi > 0
        THEN {site, GroupKey(siteGroups[gi].id)} \cup Range(siteGroups[gi].sites)
        ELSE {site}

\* C12: after a relock request for a site whose unlock has not expired,
\* no alarm named after the site, after its group or after a member of
\* its group is pending.
C12_RelockCancelsAlarms ==
    [][\A site \in Sites :
          (/\ HasKey(unlocks, site)
           /\ Lookup(unlocks, site).expiresAt > now
           /\ Relock(site)) =>
              \A k \in RelockTargets(site) : AlarmName(k) \notin DOMAIN alarms']_vars

(***************************************************************************)
(* Handlers interleaved at their awaits.  A suspended handler keeps the    *)
(* snapshot it read; `rebuilds` holds _syncQueue and the promises chained  *)
(* on it by syncBlockingRules, in request order; `log` lists the requests  *)
(* in the order their rebuild bodies started.  The clock stands still.     *)
(***************************************************************************)
ConcVars == <<tasks, config, nextGroupId, now, doneAtUnlock, syncStore, localBackups>>

Settled(q, i) == IF i = 0 THEN TRUE ELSE q.promises[i].pc = "settled"

\* syncBlockingRules: _syncQueue = _syncQueue.then(impl, impl)
syncBlockingRulesUnchained(q) ==
    [syncQueue |-> Len(q.promises) + 1,
     promises |-> Append(q.promises, Promise(0))]

syncBlockingRules(q) ==
    [syncQueue |-> Len(q.promises) + 1,
     promises |-> Append(q.promises, Promise(q.syncQueue))]

\* storage.onChanged, as a request to the queue
onChanged(old, new, q) ==
    IF old.blockedSites # new.blockedSites \/ old.unlocks # new.unlocks
    THEN syncBlockingRules(q) ELSE q

\* chrome.storage.local.set of the listed keys of st
Written(st, keys) ==
    [k \in DOMAIN Store |-> IF k \in keys THEN st[k] ELSE Store[k]]

NoSnapshot ==
    [blockedSites |-> <<>>, tasks |-> <<>>, config |-> DEFAULT_CONFIG,
     streak |-> DEFAULT_STREAK, timeLog |-> <<>>, unlocks |-> <<>>,
     siteGroups |-> <<>>, siteSettings |-> [s \in {} |-> EmptySettings]]

Handler(type, site, pc, snap) ==
    [type |-> type, site |-> site, pc |-> pc, snap |-> snap,
     removeRuleIds |-> {}, alarmName |-> "", delay |-> 0, unlock |-> None,
     awaits |-> 0]

MaxHandlers == 2    \* handlers in flight at once
MaxConcOps == 11    \* steps of one run of the interleaved handlers

\* a handler starts: its first await is the storage read
Begin(type, site) ==
    /\ Cardinality(handlers) < MaxHandlers
    /\ \A h \in handlers : ~(h.type = type /\ h.site = site)
    /\ type \in {"unlock", "pause"} => Len(timeLog) < MaxLog
    /\ handlers' = handlers \cup {Handler(type, site, "read", Store)}
    /\ UNCHANGED <<storeVars, alarms, rules, result, rebuilds, log, ConcVars>>

\* a storage write of a handler, with the onChanged event it raises
Write(h, st, h2, res) ==
    /\ Commit(st)
    /\ rebuilds' = onChanged(Store, st, rebuilds)
    /\ handlers' = (handlers \ {h}) \cup h2
    /\ result' = res
    /\ UNCHANGED <<alarms, rules, log, now, nextGroupId, doneAtUnlock,
                   syncStore, localBackups>>

WriteAddSite(h) ==
    /\ h.type = "addSite" /\ h.pc = "read"
    /\ Write(h, Written(addSite(h.site, h.snap, now), {"blockedSites", "siteSettings"}),
             {}, Ok)

WriteRemoveSite(h) ==
    /\ h.type = "removeSite" /\ h.pc = "read"
    /\ Write(h, Written(removeSite(h.site, h.snap),
                        {"blockedSites", "siteGroups", "siteSettings"}),
             {}, Ok)

\* unlockSite / pauseSite: the write of what was computed from the snapshot
WriteGrant(h) ==
    LET r == IF h.type = "unlock" THEN unlockSite(h.site, h.snap, now)
             ELSE pauseSite(h.site, 30, Str(<<Run("x", PAUSE_MIN_JUSTIFICATION)>>),
                            h.snap, now)
        keys == IF h.type = "unlock"
                THEN {"unlocks", "timeLog", "siteGroups", "siteSettings"}
                ELSE {"unlocks", "timeLog"}
    IN  /\ h.type \in {"unlock", "pause"} /\ h.pc = "read"
        /\ IF r.ready
           THEN Write(h, Written(r.store, keys),
                      {[h EXCEPT !.pc = "written", !.snap = NoSnapshot,
                                 !.removeRuleIds = r.removeRuleIds,
                                 !.alarmName = r.alarmName, !.delay = r.delay,
                                 !.unlock = Some(Lookup(r.store.unlocks, h.site))]},
                      result)
           ELSE Write(h, Store, {}, Fail("Unlock requirement not completed"))

\* unlockSite / pauseSite after the write: the direct removal of the rule
\* ids computed from the snapshot, the alarm, and (unlock) updateStreak
FinishGrant(h) ==
    /\ h.type \in {"unlock", "pause"} /\ h.pc = "written"
    /\ rules' = UpdateDynamicRules(rules, h.removeRuleIds, {})
    /\ alarms' = CreateAlarm(alarms, h.alarmName, now + h.delay)
    /\ streak' = IF h.type = "unlock" THEN updateStreak(Store, now) ELSE streak
    /\ handlers' = handlers \ {h}
    /\ result' = OkUnlock(Val(h.unlock))
    /\ UNCHANGED <<blockedSites, tasks, config, timeLog, unlocks, siteGroups,
                   siteSettings, rebuilds, log, now, nextGroupId, doneAtUnlock,
                   syncStore, localBackups>>

\* handleMessage "relock": the group read at the start names the group
\* alarm to clear; then the site alarm is cleared and relockSite reads
ClearAndRead(h) ==
    LET gi == resolveGroupForSite(h.site, h.snap.siteGroups)
        al1 == IF gi > 0
               THEN ClearAlarm(alarms, AlarmName(GroupKey(h.snap.siteGroups[gi].id)))
               ELSE alarms
    IN  /\ h.type = "relock" /\ h.pc = "read"
        /\ alarms' = ClearAlarm(al1, AlarmName(h.site))
        /\ handlers' = (handlers \ {h}) \cup {[h EXCEPT !.pc = "relock", !.snap = Store]}
        /\ UNCHANGED <<storeVars, rules, result, rebuilds, log, ConcVars>>

\* relockSite: the write
WriteRelock(h) ==
    /\ h.type = "relock" /\ h.pc = "relock"
    /\ Write(h, Written(relockSite(h.site, h.snap, now),
                        {"unlocks", "timeLog", "siteGroups", "siteSettings"}),
             {[h EXCEPT !.pc = "written", !.snap = NoSnapshot]}, result)

\* await syncBlockingRules(), in relockSite and in the start listeners
Sync(h) ==
    /\ \/ h.type = "relock" /\ h.pc = "written"
       \/ h.type = "startup" /\ h.pc = "read"
    /\ rebuilds' = syncBlockingRules(rebuilds)
    /\ handlers' = (handlers \ {h}) \cup
                       {[h EXCEPT !.pc = "sync", !.snap = NoSnapshot,
                                  !.awaits = Len(rebuilds.promises) + 1]}
    /\ UNCHANGED <<storeVars, alarms, rules, result, log, ConcVars>>

\* relockSite resumes when its rebuild has settled (the tab redirects are
\* not part of the state)
EndRelock(h) ==
    /\ h.type = "relock" /\ h.pc = "sync"
    /\ Settled(rebuilds, h.awaits)
    /\ handlers' = handlers \ {h}
    /\ result' = Ok
    /\ UNCHANGED <<storeVars, alarms, rules, rebuilds, log, ConcVars>>

\* the start listeners resume with recreateRelockAlarms
Recover(h) ==
    LET r == recreateRelockAlarms(Store, alarms, now)
    IN  /\ h.type = "startup" /\ h.pc = "sync"
        /\ Settled(rebuilds, h.awaits)
        /\ Commit(r.store)
        /\ rebuilds' = IF r.store = Store THEN rebuilds
                       ELSE syncBlockingRules(onChanged(Store, r.store, rebuilds))
        /\ alarms' = r.alarms
        /\ handlers' = handlers \ {h}
        /\ UNCHANGED <<rules, result, log, now, nextGroupId, doneAtUnlock,
                       syncStore, localBackups>>

\* _syncBlockingRulesImpl: the callback runs once the promise it was
\* chained on has settled, and reads blockedSites and unlocks
RebuildStart(i) ==
    /\ rebuilds.promises[i].pc = "pending"
    /\ Settled(rebuilds, rebuilds.promises[i].after)
    /\ rebuilds' = [rebuilds EXCEPT !.promises[i] =
                       [@ EXCEPT !.pc = "storage", !.blockedSites = blockedSites,
                                 !.unlocks = unlocks]]
    /\ log' = Append(log, i)
    /\ UNCHANGED <<storeVars, alarms, rules, result, handlers, ConcVars>>

\* const existing = await chrome.declarativeNetRequest.getDynamicRules()
RebuildGetRules(i) ==
    /\ rebuilds.promises[i].pc = "storage"
    /\ rebuilds' = [rebuilds EXCEPT !.promises[i] =
                       [@ EXCEPT !.pc = "rules", !.existing = {r.id : r \in rules}]]
    /\ UNCHANGED <<storeVars, alarms, rules, result, handlers, log, ConcVars>>

\* updateDynamicRules({removeRuleIds, addRules}); the promise settles
RebuildUpdate(i) ==
    LET p == rebuilds.promises[i]
    IN  /\ p.pc = "rules"
        /\ rules' = UpdateDynamicRules(rules, p.existing,
                                       BuildRules(p.blockedSites, p.unlocks, now))
        /\ rebuilds' = [rebuilds EXCEPT !.promises[i] =
                           [Promise(p.after) EXCEPT !.pc = "settled"]]
        /\ UNCHANGED <<storeVars, alarms, result, handlers, log, ConcVars>>

\* two sites blocked, their rules installed, the task list completed
InitConc ==
    /\ blockedSites = <<"a.com", "b.com">>
    /\ tasks = TaskList(1, 1)
    /\ config = DEFAULT_CONFIG
    /\ streak = DEFAULT_STREAK
    /\ timeLog = <<>>
    /\ unlocks = <<>>
    /\ siteGroups = <<>>
    /\ siteSettings = [s \in Sites |-> [EmptySettings EXCEPT !.lastLockedAt = Some(0)]]
    /\ alarms = NoAlarms
    /\ rules = BuildRules(<<"a.com", "b.com">>, <<>>, 0)
    /\ now = 0
    /\ nextGroupId = 0
    /\ result = Ok
    /\ handlers = {}
    /\ rebuilds = NoRebuilds
    /\ log = <<>>
    /\ doneAtUnlock = [s \in Sites |-> None]
    /\ ops = 0
    /\ syncStore = NoSync
    /\ localBackups = <<>>

\* the requests made; a start names no site
Requests ==
    {<<"addSite", "a.com">>, <<"removeSite", "a.com">>, <<"unlock", "a.com">>,
     <<"unlock", "b.com">>, <<"pause", "b.com">>, <<"relock", "a.com">>,
     <<"startup", "">>}

NextConc ==
    \/ \E req \in Requests : Step(MaxConcOps) /\ Begin(req[1], req[2])
    \/ \E h \in handlers : Step(MaxConcOps) /\ WriteAddSite(h)
    \/ \E h \in handlers : Step(MaxConcOps) /\ WriteRemoveSite(h)
    \/ \E h \in handlers : Step(MaxConcOps) /\ WriteGrant(h)
    \/ \E h \in handlers : Step(MaxConcOps) /\ FinishGrant(h)
    \/ \E h \in handlers : Step(MaxConcOps) /\ ClearAndRead(h)
    \/ \E h \in handlers : Step(MaxConcOps) /\ WriteRelock(h)
    \/ \E h \in handlers : Step(MaxConcOps) /\ Sync(h)
    \/ \E h \in handlers : Step(MaxConcOps) /\ EndRelock(h)
    \/ \E h \in handlers : Step(MaxConcOps) /\ Recover(h)
    \/ \E i \in 1..Len(rebuilds.promises) : Step(MaxConcOps) /\ RebuildStart(i)
    \/ \E i \in 1..Len(rebuilds.promises) : Step(MaxConcOps) /\ RebuildGetRules(i)
    \/ \E i \in 1..Len(rebuilds.promises) : Step(MaxConcOps) /\ RebuildUpdate(i)

SpecConc == InitConc /\ [][NextConc]_vars

Quiescent ==
    /\ handlers = {}
    /\ \A i \in 1..Len(rebuilds.promises) : rebuilds.promises[i].pc = "settled"

HasRule(site) == \E r \in rules : r.site = site

\* C8: when no handler and no rebuild is in progress, every blocked site
\* without an unlock record has a rule installed, and no site with an
\* unexpired unlock record has one.
C8_RulesConsistent ==
    Quiescent =>
        \A site \in Sites :
            /\ (Includes(blockedSites, site) /\ ~HasKey(unlocks, site)) => HasRule(site)
            /\ (HasKey(unlocks, site) /\ Lookup(unlocks, site).expiresAt > now)
                  => ~HasRule(site)

InProgress(i) == rebuilds.promises[i].pc \in {"storage", "rules"}

\* C9: at most one rebuild body is between its start and its end, and the
\* bodies start in the order the rebuilds were requested.
C9_RebuildsSerialized ==
    /\ Cardinality({i \in 1..Len(rebuilds.promises) : InProgress(i)}) <= 1
    /\ \A k \in 1..Len(log) : log[k] = k

\* a second rebuild is running while a third, already requested, waits
C9_Witness ==
    /\ Len(rebuilds.promises) >= 3
    /\ log = <<1, 2>>
    /\ InProgress(2)
    /\ rebuilds.promises[3].pc = "pending"

(***************************************************************************)
(* Navigation fallback: webNavigation.onBeforeNavigate and guardNavigation  *)
(* over blocked lists whose entries are hostnames written as character      *)
(* sequences, so that a subdomain is a proper suffix match.                 *)
(***************************************************************************)
MaxNavSites == 3    \* entries of the blocked list

\* String.prototype.startsWith / endsWith
StartsWith(s, p) == Len(p) <= Len(s) /\ SubSeq(s, 1, Len(p)) = p
EndsWith(s, p) == Len(p) <= Len(s) /\ SubSeq(s, Len(s) - Len(p) + 1, Len(s)) = p

NavParent == <<"a", ".", "c", "o">>
NavChild == <<"m", ".", "a", ".", "c", "o">>
NavLookalike == <<"a", "a", ".", "c", "o">>
NavOther == <<"b", ".", "c", "o">>
NavHosts == {NavParent, NavChild, NavLookalike, NavOther}

Https == <<"h", "t", "t", "p", "s">>
ChromeScheme == <<"c", "h", "r", "o", "m", "e">>
AboutScheme == <<"a", "b", "o", "u", "t">>
NavSchemes == {Https, ChromeScheme, AboutScheme}

\* details of a navigation: the frame and the URL's scheme and hostname
Details(frameId, scheme, hostname) ==
    [frameId |-> frameId, scheme |-> scheme, hostname |-> hostname]

\* hostname === site || hostname.endsWith("." + site)
MatchesSite(hostname, site) ==
    hostname = site \/ EndsWith(hostname, <<".">> \o site)

\* blockedSites.find(...): the index of the first matching entry, 0 if none
FindMatchedSite(list, hostname) ==
    IF \E i \in 1..Len(list) : MatchesSite(hostname, list[i])
    THEN CHOOSE i \in 1..Len(list) :
            /\ MatchesSite(hostname, list[i])
            /\ \A j \in 1..(i - 1) : ~MatchesSite(hostname, list[j])
    ELSE 0

\* guardNavigation: the site the tab is sent to the block page of, if any
guardNavigation(details, list, u, t) ==
    LET i == FindMatchedSite(list, details.hostname)
    IN  IF i = 0 THEN None
        ELSE IF IsLive(u, list[i], t) THEN None
        ELSE Some(list[i])

\* the onBeforeNavigate listener
onBeforeNavigate(details, list, u, t) ==
    IF details.frameId # 0 THEN None
    ELSE IF StartsWith(details.scheme, ChromeScheme)
            \/ StartsWith(details.scheme, AboutScheme) THEN None
    ELSE guardNavigation(details, list, u, t)

\* duplicate-free blocked lists, as addSite builds them
NavBlockedLists ==
    {l \in SeqsUpTo(NavHosts, MaxNavSites) :
        \A i, j \in 1..Len(l) : i # j => l[i] # l[j]}

\* unlock records of the sites of `list` picked by `ix`, granted at 0
NavUnlocks(list, ix) ==
    LET RECURSIVE Build(_)
        Build(i) ==
            IF i > Len(list) THEN <<>>
            ELSE (IF i \in ix
                  THEN <<[key |-> list[i], unlockedAt |-> 0,
                          expiresAt |-> DefaultCooldownMinutes * MsPerMinute]>>
                  ELSE <<>>) \o Build(i + 1)
    IN  Build(1)

InitNav ==
    /\ blockedSites \in NavBlockedLists
    /\ unlocks \in {NavUnlocks(blockedSites, ix) : ix \in SUBSET (1..Len(blockedSites))}
    /\ now \in {0, DefaultCooldownMinutes * MsPerMinute}
    /\ tasks = <<>>
    /\ config = DEFAULT_CONFIG
    /\ streak = DEFAULT_STREAK
    /\ timeLog = <<>>
    /\ siteGroups = <<>>
    /\ siteSettings = [s \in {} |-> EmptySettings]
    /\ alarms = NoAlarms
    /\ rules = {}
    /\ nextGroupId = 0
    /\ result = Ok
    /\ handlers = {}
    /\ rebuilds = NoRebuilds
    /\ log = <<>>
    /\ doneAtUnlock = [s \in Sites |-> None]
    /\ ops = 0
    /\ syncStore = NoSync
    /\ localBackups = <<>>

\* a navigation event: the tab ends on the block page of a site or goes on
Navigate(details) ==
    /\ result' = [details |-> details,
                  blocked |-> onBeforeNavigate(details, blockedSites, unlocks, now)]
    /\ UNCHANGED <<storeVars, alarms, rules, now, nextGroupId, ops>>
    /\ Idle

NextNav ==
    \/ \E h \in NavHosts : Navigate(Details(0, Https, h))
    \/ \E h \in NavHosts : Navigate(Details(1, Https, h))
    \/ \E sc \in NavSchemes \ {Https}, h \in NavHosts : Navigate(Details(0, sc, h))

SpecNav == InitNav /\ [][NextNav]_vars

\* C13: a top-level navigation to a hostname that equals, or is a
\* subdomain of, a blocked site with no unexpired unlock record is sent to
\* the block page, whatever else the blocked list holds; a navigation to a
\* blocked site with an unexpired unlock record is not.
C13_NavigationFallback ==
    [][\A h \in NavHosts :
          Navigate(Details(0, Https, h)) =>
              /\ \A i \in 1..Len(blockedSites) :
                    (/\ MatchesSite(h, blockedSites[i])
                     /\ ~IsLive(unlocks, blockedSites[i], now))
                        => result'.blocked # None
              /\ (Includes(blockedSites, h) /\ IsLive(unlocks, h, now))
                        => result'.blocked = None]_vars

(***************************************************************************)
(* The pause machine: pause requests with every kind of justification and  *)
(* duration, over task lists that do and do not meet the requirement.  A   *)
(* run takes at most MaxPauseOps steps.                                    *)
(***************************************************************************)
MaxPauseOps == 5

PauseTaskLists == {<<>>, TaskList(1, 0), TaskList(1, 1)}

\* justifications accepted by pauseSite, and what is left of each after trim
LongEnough == Str(<<Run(" ", 2), Run("x", PAUSE_MIN_JUSTIFICATION), Run(" ", 1)>>)
LongEnoughTrimmed == <<Run("x", PAUSE_MIN_JUSTIFICATION)>>
\* justifications refused: not a string, blank, or a character short
\* although 120 characters long before the trim
Blank == Str(<<Run(" ", PAUSE_MIN_JUSTIFICATION)>>)
TooShort == Str(<<Run(" ", 1), Run("x", PAUSE_MIN_JUSTIFICATION - 1)>>)
RefusedJustifications == {Undefined, Blank, TooShort}
PauseJustifications == RefusedJustifications \cup {LongEnough}

\* durations of the allow-list and two that are not in it
PauseDurationInputs == {5, 7, 30, 60}

NextPause ==
    \/ \E site \in Sites : Step(MaxPauseOps) /\ AddSite(site)
    \/ \E list \in PauseTaskLists : Step(MaxPauseOps) /\ UpdateTasks(list)
    \/ Step(MaxPauseOps) /\ AddGroup(<<>>, <<"a.com", "b.com">>, None)
    \/ \E site \in Sites, d \in PauseDurationInputs, j \in PauseJustifications :
          Step(MaxPauseOps) /\ Pause(site, d, j)
    \/ \E site \in Sites : Step(MaxPauseOps) /\ Relock(site)
    \/ \E name \in AlarmNames : Step(MaxPauseOps) /\ AlarmFire(name)
    \/ \E t \in Instants : Step(MaxPauseOps) /\ Tick(t)

SpecPause == Init /\ [][NextPause]_vars

\* C14: a pause whose justification is not a string, or is shorter than
\* 120 characters once trimmed, answers {ok: false, error} and leaves the
\* unlock records, the time log, the alarms and the rules as they were; a
\* pause with a long enough justification and a duration of the allow-list
\* is granted whatever the task list, and appends a time-log entry for the
\* site with paused = true and the trimmed justification.
C14_PauseJustification ==
    [][\A site \in Sites, d \in PauseDurationInputs :
          /\ \A j \in RefusedJustifications :
                Pause(site, d, j) =>
                    /\ result'.ok = FALSE
                    /\ result'.error # ""
                    /\ UNCHANGED <<unlocks, timeLog, alarms, rules>>
          /\ (d \in {5, 15, 30} /\ Pause(site, d, LongEnough)) =>
                    /\ result'.ok
                    /\ result'.unlock = Some([key |-> site, unlockedAt |-> now,
                                              expiresAt |-> now + d * MsPerMinute])
                    /\ Len(timeLog') = Len(timeLog) + 1
                    /\ SubSeq(timeLog', 1, Len(timeLog)) = timeLog
                    /\ timeLog'[Len(timeLog')].site = site
                    /\ timeLog'[Len(timeLog')].paused = TRUE
                    /\ timeLog'[Len(timeLog')].justification = LongEnoughTrimmed]_vars

\* a pause has been granted while the one task of the list is not completed
C14_Witness ==
    /\ result.ok
    /\ result.unlock # None
    /\ tasks = TaskList(1, 0)
    /\ ~isUnlockRequirementMet(tasks, config)
    /\ timeLog # <<>>
    /\ timeLog[Len(timeLog)].paused
    /\ timeLog[Len(timeLog)].justification = LongEnoughTrimmed
    /\ HasKey(unlocks, timeLog[Len(timeLog)].site)

\* C15: a pause whose duration is not 5, 15 or 30 minutes answers
\* {ok: false, error} and creates no unlock record, no time-log entry and
\* no alarm.
C15_PauseDurationValidated ==
    [][\A site \in Sites, d \in PauseDurationInputs \ {5, 15, 30},
          j \in PauseJustifications :
          Pause(site, d, j) =>
              /\ result'.ok = FALSE
              /\ result'.error # ""
              /\ UNCHANGED <<unlocks, timeLog, alarms>>]_vars

(***************************************************************************)
(* The task tree of the block page (markdown.js): a flat list of tasks     *)
(* linked by parentId.  A traversal works on the list by index; children   *)
(* are read from the list as it is when they are read, as the code reads   *)
(* the task objects it shares with the list.                               *)
(***************************************************************************)
MaxTreeTasks == 3      \* tasks of a list with arbitrary parentId references
MaxForestTasks == 4    \* tasks of a well-formed list
MaxTreeLen == 5        \* tasks of a list after additions
MaxTreeOps == 2        \* steps of one run of the task operations

TaskIds == <<"t1", "t2", "t3", "t4">>
FreshIds == <<"u1", "u2">>
MissingId == "zz"

TreeTask(id, parentId, completed, completedAt, recurring) ==
    [id |-> id, parentId |-> parentId, completed |-> completed,
     completedAt |-> completedAt, recurring |-> recurring]

Indices(list) == [i \in 1..Len(list) |-> i]
HasId(list, id) == \E i \in 1..Len(list) : list[i].id = id
\* tasksById.get(id), as an index into the list
IndexOfId(list, id) == CHOOSE i \in 1..Len(list) : list[i].id = id
Reverse(s) == [i \in 1..Len(s) |-> s[Len(s) + 1 - i]]

getParentId(task, list) ==
    IF task.parentId = None THEN None
    ELSE IF Val(task.parentId) = task.id THEN None
    ELSE IF HasId(list, Val(task.parentId)) THEN task.parentId ELSE None

\* buildTaskTree: childrenByParent.get(key) || [], in list order; key is
\* None (the roots) or Some(id)
ChildrenOf(list, key) ==
    SelectSeq(Indices(list), LAMBDA i : getParentId(list[i], list) = key)

\* the flag set, the timestamp left as it was
setTaskCompletionKeepStamp(list, i, completed, timestamp) ==
    [list EXCEPT ![i].completed = completed]

setTaskCompletion(list, i, completed, timestamp) ==
    [list EXCEPT ![i].completed = completed,
                 ![i].completedAt = IF completed THEN Some(timestamp) ELSE None]

\* iterations a traversal loop is followed for: each iteration pops one
\* entry, and a task pushes its children once
TraversalFuel == 2 * MaxTreeLen + 2

\* collectDescendants: the while loop; out holds the indices pushed to
\* descendants, in order
RECURSIVE DescendantsLoopNoSeen(_, _, _, _, _)
DescendantsLoopNoSeen(list, stack, seen, out, fuel) ==
    IF stack = <<>> THEN [finished |-> TRUE, out |-> out]
    ELSE IF fuel = 0 THEN [finished |-> FALSE, out |-> out]
    ELSE LET current == stack[Len(stack)]
             rest == SubSeq(stack, 1, Len(stack) - 1)
         IN  DescendantsLoopNoSeen(list,
                    rest \o ChildrenOf(list, Some(list[current].id)),
                    seen \cup {list[current].id}, Append(out, current), fuel - 1)

RECURSIVE DescendantsLoop(_, _, _, _, _)
DescendantsLoop(list, stack, seen, out, fuel) ==
    IF stack = <<>> THEN [finished |-> TRUE, out |-> out]
    ELSE IF fuel = 0 THEN [finished |-> FALSE, out |-> out]
    ELSE LET current == stack[Len(stack)]
             rest == SubSeq(stack, 1, Len(stack) - 1)
         IN  IF list[current].id \in seen
             THEN DescendantsLoop(list, rest, seen, out, fuel - 1)
             ELSE DescendantsLoop(list,
                    rest \o ChildrenOf(list, Some(list[current].id)),
                    seen \cup {list[current].id}, Append(out, current), fuel - 1)

collectDescendants(taskId, list) ==
    DescendantsLoop(list, ChildrenOf(list, Some(taskId)), {taskId}, <<>>,
                    TraversalFuel)

\* children.every((child) => child.completed)
AllCompleted(list, children) == \A k \in Range(children) : list[k].completed

\* syncAncestorCompletion: the while loop; order holds the parents visited
RECURSIVE AncestorLoop(_, _, _, _, _, _)
AncestorLoop(list, parentId, seen, order, timestamp, fuel) ==
    IF parentId = None THEN [finished |-> TRUE, list |-> list, order |-> order]
    ELSE IF Val(parentId) \in seen
    THEN [finished |-> TRUE, list |-> list, order |-> order]
    ELSE IF fuel = 0 THEN [finished |-> FALSE, list |-> list, order |-> order]
    ELSE IF ~HasId(list, Val(parentId))
    THEN [finished |-> TRUE, list |-> list, order |-> order]
    ELSE LET p == IndexOfId(list, Val(parentId))
             children == ChildrenOf(list, parentId)
             shouldBeCompleted == AllCompleted(list, children)
             next == IF list[p].completed # shouldBeCompleted
                     THEN setTaskCompletion(list, p, shouldBeCompleted, timestamp)
                     ELSE IF ~shouldBeCompleted
                     THEN [list EXCEPT ![p].completedAt = None]
                     ELSE list
         IN  IF children = <<>>
             THEN [finished |-> TRUE, list |-> list, order |-> Append(order, p)]
             ELSE AncestorLoop(next, getParentId(next[p], next),
                               seen \cup {Val(parentId)}, Append(order, p),
                               timestamp, fuel - 1)

syncAncestorCompletion(i, list, timestamp) ==
    AncestorLoop(list, getParentId(list[i], list), {}, <<>>, timestamp,
                 TraversalFuel)

\* syncCompositeCompletion: walk, with acc = [list, visited, changed, order,
\* finished]; depth bounds the nesting of the calls
RECURSIVE walk(_, _, _, _)
RECURSIVE WalkEach(_, _, _, _)
walk(acc, i, timestamp, depth) ==
    IF acc.list[i].id \in acc.visited THEN acc
    ELSE IF depth = 0 THEN [acc EXCEPT !.finished = FALSE]
    ELSE LET children == ChildrenOf(acc.list, Some(acc.list[i].id))
             entered == [acc EXCEPT !.visited = @ \cup {acc.list[i].id},
                                    !.order = Append(@, i)]
             after == WalkEach(entered, children, timestamp, depth - 1)
             shouldBeCompleted == AllCompleted(after.list, children)
         IN  IF children = <<>> THEN after
             ELSE IF after.list[i].completed # shouldBeCompleted
             THEN [after EXCEPT
                     !.list = setTaskCompletion(@, i, shouldBeCompleted, timestamp),
                     !.changed = TRUE]
             ELSE IF ~shouldBeCompleted
             THEN [after EXCEPT
                     !.list[i].completedAt = None,
                     !.changed = @ \/ after.list[i].completedAt # None]
             ELSE after

WalkEach(acc, seq, timestamp, depth) ==
    IF seq = <<>> THEN acc
    ELSE WalkEach(walk(acc, Head(seq), timestamp, depth), Tail(seq),
                  timestamp, depth)

syncCompositeCompletion(list, timestamp) ==
    LET start == [list |-> list, visited |-> {}, changed |-> FALSE,
                  order |-> <<>>, finished |-> TRUE]
        roots == WalkEach(start, ChildrenOf(list, None), timestamp, MaxTreeLen + 1)
    IN  WalkEach(roots, Indices(list), timestamp, MaxTreeLen + 1)

\* getSubtreeTaskIds: the while loop over a stack of ids; ids is the result
RECURSIVE SubtreeLoop(_, _, _, _, _)
SubtreeLoop(list, stack, seen, ids, fuel) ==
    IF stack = <<>> THEN [finished |-> TRUE, ids |-> ids]
    ELSE IF fuel = 0 THEN [finished |-> FALSE, ids |-> ids]
    ELSE LET currentId == stack[Len(stack)]
             rest == SubSeq(stack, 1, Len(stack) - 1)
             children == ChildrenOf(list, Some(currentId))
         IN  IF currentId \in seen
             THEN SubtreeLoop(list, rest, seen, ids, fuel - 1)
             ELSE SubtreeLoop(list,
                    rest \o [k \in 1..Len(children) |-> list[Reverse(children)[k]].id],
                    seen \cup {currentId}, Append(ids, currentId), fuel - 1)

getSubtreeTaskIds(taskId, list) ==
    SubtreeLoop(list, <<taskId>>, {}, <<>>, TraversalFuel)

\* getCompositeProgress: the while loop; order holds the tasks counted or
\* expanded
RECURSIVE ProgressLoop(_, _, _, _, _)
ProgressLoop(list, stack, visited, acc, fuel) ==
    IF stack = <<>> THEN [acc EXCEPT !.finished = TRUE]
    ELSE IF fuel = 0 THEN acc
    ELSE LET task == stack[Len(stack)]
             rest == SubSeq(stack, 1, Len(stack) - 1)
             children == ChildrenOf(list, Some(list[task].id))
         IN  IF list[task].id \in visited
             THEN ProgressLoop(list, rest, visited, acc, fuel - 1)
             ELSE IF children = <<>>
             THEN ProgressLoop(list, rest, visited \cup {list[task].id},
                    [acc EXCEPT !.total = @ + 1,
                                !.done = IF list[task].completed THEN @ + 1 ELSE @,
                                !.order = Append(@, task)],
                    fuel - 1)
             ELSE ProgressLoop(list, rest \o children,
                    visited \cup {list[task].id},
                    [acc EXCEPT !.order = Append(@, task)], fuel - 1)

getCompositeProgress(taskId, list) ==
    LET direct == ChildrenOf(list, Some(taskId))
        r == ProgressLoop(list, direct, {taskId},
                          [finished |-> FALSE, done |-> 0, total |-> 0,
                           order |-> <<>>], TraversalFuel)
    IN  IF r.total = 0
        THEN [r EXCEPT !.total = Len(direct),
                       !.done = Len(SelectSeq(direct, LAMBDA k : list[k].completed))]
        ELSE r

\* toggleTask up to persistTasks
RECURSIVE SetEach(_, _, _, _)
SetEach(list, seq, completed, timestamp) ==
    IF seq = <<>> THEN list
    ELSE SetEach(setTaskCompletion(list, Head(seq), completed, timestamp),
                 Tail(seq), completed, timestamp)

toggleTaskNoDescendants(taskId, list, timestamp) ==
    IF ~HasId(list, taskId) THEN list
    ELSE LET i == IndexOfId(list, taskId)
             nextCompleted == ~list[i].completed
         IN  syncAncestorCompletion(i,
                 setTaskCompletion(list, i, nextCompleted, timestamp),
                 timestamp).list

toggleTaskNoAncestors(taskId, list, timestamp) ==
    IF ~HasId(list, taskId) THEN list
    ELSE LET i == IndexOfId(list, taskId)
             nextCompleted == ~list[i].completed
         IN  SetEach(setTaskCompletion(list, i, nextCompleted, timestamp),
                     collectDescendants(taskId, list).out,
                     nextCompleted, timestamp)

toggleTask(taskId, list, timestamp) ==
    IF ~HasId(list, taskId) THEN list
    ELSE LET i == IndexOfId(list, taskId)
             nextCompleted == ~list[i].completed
             toggled == setTaskCompletion(list, i, nextCompleted, timestamp)
             down == SetEach(toggled, collectDescendants(taskId, toggled).out,
                             nextCompleted, timestamp)
         IN  syncAncestorCompletion(i, down, timestamp).list

\* crypto.randomUUID(): an id no task has
FreshId(list) ==
    FreshIds[CHOOSE k \in 1..Len(FreshIds) :
                /\ ~HasId(list, FreshIds[k])
                /\ \A j \in 1..(k - 1) : HasId(list, FreshIds[j])]

addTask(recurring, list) ==
    Append(list, TreeTask(FreshId(list), None, FALSE, None, recurring))

\* state.tasks.splice(insertIndex + 1, 0, newTask)
InsertAfter(list, i, task) ==
    SubSeq(list, 1, i) \o <<task>> \o SubSeq(list, i + 1, Len(list))

\* addSubtask without the resync after the insertion
addSubtaskNoSync(parentTaskId, list, timestamp) ==
    IF ~HasId(list, parentTaskId) THEN list
    ELSE Append(list, TreeTask(FreshId(list), Some(parentTaskId), FALSE, None, None))

addSubtask(parentTaskId, list, timestamp) ==
    IF ~HasId(list, parentTaskId) THEN list
    ELSE LET subtreeIds == Range(getSubtreeTaskIds(parentTaskId, list).ids)
             at == {i \in 1..Len(list) : list[i].id \in subtreeIds}
             insertIndex == IF at = {} THEN 0 ELSE CHOOSE i \in at : \A j \in at : j <= i
             newTask == TreeTask(FreshId(list), Some(parentTaskId), FALSE, None, None)
         IN  syncCompositeCompletion(InsertAfter(list, insertIndex, newTask),
                                     timestamp).list

\* deleteTask, the confirmation given
deleteTask(taskId, list, timestamp) ==
    LET subtreeIds == Range(getSubtreeTaskIds(taskId, list).ids)
    IN  syncCompositeCompletion(
            SelectSeq(list, LAMBDA t : t.id \notin subtreeIds), timestamp).list

\* the Monday of the week of day d, day 0 being a Thursday
WeekStart(d) ==
    LET getDay == (d + 4) % 7
        dayOfWeek == IF getDay = 0 THEN 7 ELSE getDay
    IN  d - dayOfWeek + 1

\* resetRecurringTasks: the loop over the tasks
ResetOne(task, t) ==
    IF task.recurring = None \/ ~task.completed \/ task.completedAt = None
    THEN task
    ELSE IF \/ task.recurring = Some("daily")
               /\ DayOf(Val(task.completedAt)) < DayOf(t)
            \/ task.recurring = Some("weekly")
               /\ DayOf(Val(task.completedAt)) < WeekStart(DayOf(t))
    THEN [task EXCEPT !.completed = FALSE, !.completedAt = None]
    ELSE task

resetRecurringTasks(list, t) ==
    syncCompositeCompletion([i \in 1..Len(list) |-> ResetOne(list[i], t)], t).list

(***************************************************************************)
(* The task machine: the task operations of the block page on lists drawn  *)
(* from bounded sets.  A run takes at most MaxTreeOps steps.               *)
(***************************************************************************)
TreeParents(n) ==
    {None, Some(MissingId)} \cup {Some(TaskIds[j]) : j \in 1..n}

\* lists of n tasks with any parentId references and any timestamps
ArbitraryLists(n) ==
    {[i \in 1..n |-> TreeTask(TaskIds[i], p[i], c[i], a[i], None)] :
        p \in [1..n -> TreeParents(n)], c \in [1..n -> BOOLEAN],
        a \in [1..n -> {None, Some(0)}]}

Stamp(completed) == IF completed THEN Some(0) ELSE None

\* lists of n tasks with any parentId references, the completed tasks
\* stamped and the others not
StampedLists(n) ==
    {[i \in 1..n |-> TreeTask(TaskIds[i], p[i], c[i], Stamp(c[i]), None)] :
        p \in [1..n -> TreeParents(n)], c \in [1..n -> BOOLEAN]}

\* a task with a subtask, no incomplete task stamped
UnstampedLists ==
    {l \in ArbitraryLists(2) :
        /\ l[1].parentId = None /\ l[2].parentId = Some("t1")
        /\ \A i \in 1..2 : ~l[i].completed => l[i].completedAt = None}

\* well-formed lists of n tasks, a parent before its children, the
\* completed tasks stamped
ForestLists(n) ==
    {[i \in 1..n |-> TreeTask(TaskIds[i], p[i], c[i], Stamp(c[i]), None)] :
        p \in {q \in [1..n -> TreeParents(n) \ {Some(MissingId)}] :
                 \A i \in 1..n :
                    q[i] # None => \E j \in 1..(i - 1) : q[i] = Some(TaskIds[j])},
        c \in [1..n -> BOOLEAN]}

Recurrences == {None, Some("daily"), Some("weekly")}

\* a task with a subtask, either of them recurring, completed tasks stamped
RecurringLists ==
    {<<TreeTask("t1", None, c[1], Stamp(c[1]), r[1]),
       TreeTask("t2", Some("t1"), c[2], Stamp(c[2]), r[2])>> :
        c \in [1..2 -> BOOLEAN], r \in [1..2 -> Recurrences]}

TreeLists ==
    UNION {StampedLists(n) : n \in 1..MaxTreeTasks}
        \cup ForestLists(MaxForestTasks) \cup RecurringLists \cup UnstampedLists

TreeIds(list) == {list[i].id : i \in 1..Len(list)} \cup {MissingId}

\* instants of the day after the first one and of the Monday after it
TreeInstants == {DayMs + 1, 4 * DayMs + 1}

InitTree ==
    /\ tasks \in TreeLists
    /\ now = 1
    /\ config = DEFAULT_CONFIG
    /\ blockedSites = <<>>
    /\ streak = DEFAULT_STREAK
    /\ timeLog = <<>>
    /\ unlocks = <<>>
    /\ siteGroups = <<>>
    /\ siteSettings = [s \in {} |-> EmptySettings]
    /\ alarms = NoAlarms
    /\ rules = {}
    /\ nextGroupId = 0
    /\ result = Ok
    /\ handlers = {}
    /\ rebuilds = NoRebuilds
    /\ log = <<>>
    /\ doneAtUnlock = [s \in Sites |-> None]
    /\ ops = 0
    /\ syncStore = NoSync
    /\ localBackups = <<>>

\* a task operation: state.tasks after it
TaskOp(list, res) ==
    /\ tasks' = list
    /\ result' = res
    /\ UNCHANGED <<blockedSites, config, streak, timeLog, unlocks, siteGroups,
                   siteSettings, alarms, rules, now, nextGroupId>>
    /\ Idle

ToggleTask(taskId) == TaskOp(toggleTask(taskId, tasks, now), Ok)

AddTask(recurring) ==
    /\ Len(tasks) < MaxTreeLen
    /\ TaskOp(addTask(recurring, tasks), Ok)

AddSubtask(parentTaskId) ==
    /\ Len(tasks) < MaxTreeLen
    /\ TaskOp(addSubtask(parentTaskId, tasks, now), Ok)

DeleteTask(taskId) == TaskOp(deleteTask(taskId, tasks, now), Ok)

ResetRecurringTasks == TaskOp(resetRecurringTasks(tasks, now), Ok)

SyncCompositeCompletion ==
    LET r == syncCompositeCompletion(tasks, now)
    IN  TaskOp(r.list, [ok |-> TRUE, changed |-> r.changed])

TreeTick(t) ==
    /\ t > now
    /\ now' = t
    /\ UNCHANGED <<storeVars, alarms, rules, nextGroupId, result>>
    /\ Idle

NextTree ==
    \/ \E id \in TreeIds(tasks) : Step(MaxTreeOps) /\ ToggleTask(id)
    \/ \E r \in {None, Some("daily")} : Step(MaxTreeOps) /\ AddTask(r)
    \/ \E id \in TreeIds(tasks) : Step(MaxTreeOps) /\ AddSubtask(id)
    \/ \E id \in TreeIds(tasks) : Step(MaxTreeOps) /\ DeleteTask(id)
    \/ Step(MaxTreeOps) /\ ResetRecurringTasks
    \/ Step(MaxTreeOps) /\ SyncCompositeCompletion
    \/ \E t \in TreeInstants : Step(MaxTreeOps) /\ TreeTick(t)

SpecTree == InitTree /\ [][NextTree]_vars

\* the ids of the tasks below `id` (its children, their children, ...) and
\* of the tasks above it, by the parent links that getParentId follows
RECURSIVE Below(_, _)
Below(list, ids) ==
    LET more == ids \cup {list[k].id : k \in
                    {j \in 1..Len(list) :
                        /\ getParentId(list[j], list) # None
                        /\ Val(getParentId(list[j], list)) \in ids}}
    IN  IF more = ids THEN ids ELSE Below(list, more)

RECURSIVE Above(_, _)
Above(list, ids) ==
    LET more == ids \cup {Val(getParentId(list[j], list)) : j \in
                    {j \in 1..Len(list) :
                        list[j].id \in ids /\ getParentId(list[j], list) # None}}
    IN  IF more = ids THEN ids ELSE Above(list, more)

DescendantIds(list, id) == Below(list, {id}) \ {id}
AncestorIds(list, id) == Above(list, {id}) \ {id}

\* the list keeps its tasks: same ids, parents and recurrences, in place
SameTasks(before, after) ==
    /\ Len(after) = Len(before)
    /\ \A k \in 1..Len(before) :
          /\ after[k].id = before[k].id
          /\ after[k].parentId = before[k].parentId
          /\ after[k].recurring = before[k].recurring

\* C16: toggling a task of the list flips its completed flag, gives it and
\* every task below it the new flag and the same completedAt (the toggle
\* time when completing, none when un-completing), and leaves every task
\* that is neither below nor above it as it was.
C16_DownwardPropagation ==
    [][\A id \in TreeIds(tasks) :
          (HasId(tasks, id) /\ ToggleTask(id)) =>
              LET i == IndexOfId(tasks, id)
                  nextCompleted == ~tasks[i].completed
                  stamp == IF nextCompleted THEN Some(now) ELSE None
              IN  /\ SameTasks(tasks, tasks')
                  /\ tasks'[i].completed = nextCompleted
                  /\ tasks'[i].completedAt = stamp
                  /\ \A k \in 1..Len(tasks) :
                        /\ tasks[k].id \in DescendantIds(tasks, id) =>
                              /\ tasks'[k].completed = nextCompleted
                              /\ tasks'[k].completedAt = stamp
                        /\ tasks[k].id \notin
                              {id} \cup DescendantIds(tasks, id) \cup AncestorIds(tasks, id)
                              => tasks'[k] = tasks[k]]_vars

\* one toggle of a task has stamped it, a child of it and a grandchild of
\* it with the toggle time
C16_Witness ==
    /\ ops = 1
    /\ \E i, j, k \in 1..Len(tasks) :
          /\ tasks[j].parentId = Some(tasks[i].id)
          /\ tasks[k].parentId = Some(tasks[j].id)
          /\ Cardinality({i, j, k}) = 3
          /\ \A m \in {i, j, k} :
                tasks[m].completed /\ tasks[m].completedAt = Some(now)

\* every parentId is none or names another task of the list, and no task
\* is above itself
Acyclic(list) ==
    \A k \in 1..Len(list) :
        /\ getParentId(list[k], list) = list[k].parentId
        /\ list[k].parentId # None =>
              list[k].id \notin Above(list, {Val(list[k].parentId)})

IsLeaf(list, id) == ChildrenOf(list, Some(id)) = <<>>

\* every task with children is completed exactly when all of them are
Consistent(list) ==
    \A k \in 1..Len(list) :
        ~IsLeaf(list, list[k].id) =>
            (list[k].completed <=>
                AllCompleted(list, ChildrenOf(list, Some(list[k].id))))

\* the tasks above leaf `id` left with no incomplete child once the leaf is
\* completed: everything below them, the leaf and its path apart, is completed
CompletedBy(list, id) ==
    {a \in AncestorIds(list, id) :
        \A k \in 1..Len(list) :
            list[k].id \in DescendantIds(list, a) \ ({id} \cup AncestorIds(list, id))
                => list[k].completed}

\* C17: in an acyclic list whose composites agree with their children,
\* completing a leaf completes, with a timestamp, every task above it that
\* is left with no incomplete child, and leaves the first one that still
\* has an incomplete child, and every task above that one, as it was.
C17_UpwardPropagation ==
    [][\A id \in TreeIds(tasks) :
          (/\ HasId(tasks, id)
           /\ Acyclic(tasks) /\ Consistent(tasks)
           /\ IsLeaf(tasks, id)
           /\ ~tasks[IndexOfId(tasks, id)].completed
           /\ ToggleTask(id)) =>
              \A k \in 1..Len(tasks) :
                  tasks[k].id \in AncestorIds(tasks, id) =>
                      IF tasks[k].id \in CompletedBy(tasks, id)
                      THEN /\ tasks'[k].completed
                           /\ tasks'[k].completedAt = Some(now)
                      ELSE /\ ~tasks'[k].completed
                           /\ tasks'[k] = tasks[k]]_vars

\* one toggle of a leaf has completed its parent and its grandparent: the
\* leaf's sibling keeps its earlier timestamp
C17_Witness ==
    /\ ops = 1
    /\ now > 0
    /\ \E g, p, l, sib \in 1..Len(tasks) :
          /\ Cardinality({g, p, l, sib}) = 4
          /\ tasks[p].parentId = Some(tasks[g].id)
          /\ tasks[l].parentId = Some(tasks[p].id)
          /\ tasks[sib].parentId = Some(tasks[p].id)
          /\ tasks[sib].completed /\ tasks[sib].completedAt = Some(0)
          /\ \A m \in {g, p, l} :
                tasks[m].completed /\ tasks[m].completedAt = Some(now)

(***************************************************************************)
(* The traversals on their own: the list is drawn from lists with any      *)
(* parentId references and any timestamps; a step runs the global resync   *)
(* on the list, or one traversal from one id, leaving in `result` what     *)
(* the traversal visited.                                                  *)
(***************************************************************************)
WalkLists ==
    UNION {ArbitraryLists(n) : n \in 1..MaxTreeTasks}
        \cup ForestLists(MaxForestTasks)

InitWalk ==
    /\ tasks \in WalkLists
    /\ now = 1
    /\ config = DEFAULT_CONFIG
    /\ blockedSites = <<>>
    /\ streak = DEFAULT_STREAK
    /\ timeLog = <<>>
    /\ unlocks = <<>>
    /\ siteGroups = <<>>
    /\ siteSettings = [s \in {} |-> EmptySettings]
    /\ alarms = NoAlarms
    /\ rules = {}
    /\ nextGroupId = 0
    /\ result = Ok
    /\ handlers = {}
    /\ rebuilds = NoRebuilds
    /\ log = <<>>
    /\ doneAtUnlock = [s \in Sites |-> None]
    /\ ops = 0
    /\ syncStore = NoSync
    /\ localBackups = <<>>

\* what a traversal did: whether it ended, and the ids it visited, in order
Visited(kind, from, finished, ids) ==
    [kind |-> kind, from |-> from, finished |-> finished, visited |-> ids]

IdsAt(list, indices) == [k \in 1..Len(indices) |-> list[indices[k]].id]

Traversed(res) ==
    /\ result' = res
    /\ UNCHANGED <<storeVars, alarms, rules, now, nextGroupId, ops>>
    /\ Idle

\* syncCompositeCompletion on state.tasks
Resync ==
    LET r == syncCompositeCompletion(tasks, now)
    IN  /\ tasks' = r.list
        /\ result' = [kind |-> "resync", from |-> MissingId,
                      finished |-> r.finished,
                      visited |-> IdsAt(tasks, r.order), changed |-> r.changed]
        /\ UNCHANGED <<blockedSites, config, streak, timeLog, unlocks, siteGroups,
                       siteSettings, alarms, rules, now, nextGroupId, ops>>
        /\ Idle

CollectDescendants(taskId) ==
    LET r == collectDescendants(taskId, tasks)
    IN  Traversed(Visited("descendants", taskId, r.finished, IdsAt(tasks, r.out)))

SyncAncestors(taskId) ==
    LET r == syncAncestorCompletion(IndexOfId(tasks, taskId), tasks, now)
    IN  /\ HasId(tasks, taskId)
        /\ Traversed(Visited("ancestors", taskId, r.finished, IdsAt(tasks, r.order)))

GetSubtreeTaskIds(taskId) ==
    LET r == getSubtreeTaskIds(taskId, tasks)
    IN  Traversed(Visited("subtree", taskId, r.finished, r.ids))

GetCompositeProgress(taskId) ==
    LET r == getCompositeProgress(taskId, tasks)
    IN  Traversed(Visited("progress", taskId, r.finished, IdsAt(tasks, r.order)))

NextWalk ==
    \/ Resync
    \/ \E id \in TreeIds(tasks) : CollectDescendants(id)
    \/ \E id \in TreeIds(tasks) : SyncAncestors(id)
    \/ \E id \in TreeIds(tasks) : GetSubtreeTaskIds(id)
    \/ \E id \in TreeIds(tasks) : GetCompositeProgress(id)

SpecWalk == InitWalk /\ [][NextWalk]_vars

\* C18: a run of syncCompositeCompletion directly after a run of it changes
\* no task and reports no change, whatever the parentId references.
C18_ResyncIdempotent ==
    [][Resync =>
          LET again == syncCompositeCompletion(tasks', now')
          IN  /\ again.list = tasks'
              /\ again.changed = FALSE]_vars

NoDuplicates(seq) == \A i, j \in 1..Len(seq) : i # j => seq[i] # seq[j]

\* C19: every traversal run on a list (the collection of descendants, the
\* propagation to the ancestors, the global resync, the progress count and
\* the collection of a subtree) ends, and has visited no task id twice,
\* whatever the parentId references.
C19_TraversalsTerminate ==
    "kind" \in DOMAIN result =>
        /\ result.finished
        /\ NoDuplicates(result.visited)

\* the descendants of a task on a cycle of three have been collected: the
\* two other tasks of the cycle, once each
C19_Witness ==
    /\ "kind" \in DOMAIN result
    /\ result.kind = "descendants"
    /\ result.finished
    /\ Len(tasks) = 3
    /\ \A k \in 1..3 : tasks[k].parentId = Some(tasks[(k % 3) + 1].id)
    /\ Len(result.visited) = 2
    /\ result.from \notin Range(result.visited)

\* completed = false => completedAt = null
NoStaleStamp(list) ==
    \A k \in 1..Len(list) : ~list[k].completed => list[k].completedAt = None

\* completed = true => completedAt is not null
AllStamped(list) ==
    \A k \in 1..Len(list) : list[k].completed => list[k].completedAt # None

\* C20 as stated: from a list in which every incomplete task has no
\* completedAt, after any operations every incomplete task has no
\* completedAt and every completed task has one.
C20_TimestampInvariant ==
    ops > 0 => NoStaleStamp(tasks) /\ AllStamped(tasks)

\* C20: from a list in which every incomplete task has no completedAt, no
\* sequence of toggleTask, addTask, addSubtask, deleteTask, recurring reset
\* and syncCompositeCompletion leaves an incomplete task with a
\* completedAt; and each of these operations, on a list whose completed
\* tasks all have a completedAt, gives a list whose completed tasks all
\* have one.
C20_TimestampsKept ==
    /\ []NoStaleStamp(tasks)
    /\ [][AllStamped(tasks) => AllStamped(tasks')]_vars

\* a subtask has been added to a completed task with a completed child:
\* the task is incomplete again and its completedAt is cleared
C20_Witness ==
    /\ ops = 1
    /\ \E p, c, n \in 1..Len(tasks) :
          /\ tasks[n].id = FreshIds[1]
          /\ tasks[n].parentId = Some(tasks[p].id)
          /\ tasks[c].parentId = Some(tasks[p].id)
          /\ tasks[c].completed /\ tasks[c].completedAt = Some(0)
          /\ ~tasks[n].completed /\ tasks[n].completedAt = None
          /\ ~tasks[p].completed /\ tasks[p].completedAt = None
    /\ NoStaleStamp(tasks) /\ AllStamped(tasks)

(***************************************************************************)
(* The registry machine: groups made, changed and removed and sites        *)
(* removed and added, with unlocks and their alarms, starting with every   *)
(* site blocked and no group.  A run takes at most MaxRegistryOps steps.   *)
(***************************************************************************)
MaxRegistryGroups == 2
MaxRegistryOps == 5

RegistrySiteLists == {<<>>, <<"a.com">>, <<"b.com">>, <<"a.com", "b.com">>}
RegistryNames == {<<>>, <<"G">>}

NextRegistry ==
    \/ \E site \in Sites : Step(MaxRegistryOps) /\ AddSite(site)
    \/ \E site \in Sites : Step(MaxRegistryOps) /\ RemoveSite(site)
    \/ \E name \in RegistryNames, sites \in RegistrySiteLists :
          Step(MaxRegistryOps) /\ AddGroupUpTo(MaxRegistryGroups, name, sites, None)
    \/ \E id \in GroupIdSet, sites \in RegistrySiteLists :
          Step(MaxRegistryOps) /\ UpdateGroup(id, None, Some(sites), None)
    \/ \E id \in GroupIdSet : Step(MaxRegistryOps) /\ RemoveGroup(id)
    \/ \E site \in Sites : Step(MaxRegistryOps) /\ Unlock(site)
    \/ \E name \in AlarmNames : Step(MaxRegistryOps) /\ AlarmFire(name)
    \/ \E t \in Instants : Step(MaxRegistryOps) /\ Tick(t)

SpecRegistry == InitConc /\ [][NextRegistry]_vars

GroupsOf(site) == {i \in 1..Len(siteGroups) : Includes(siteGroups[i].sites, site)}

\* the memberships and the blocked list are as they were
MembershipUnchanged ==
    /\ blockedSites' = blockedSites
    /\ Len(siteGroups') = Len(siteGroups)
    /\ \A i \in 1..Len(siteGroups) :
          /\ siteGroups'[i].id = siteGroups[i].id
          /\ siteGroups'[i].sites = siteGroups[i].sites

\* C21: no site is a member of two groups; and an addGroup or updateGroup
\* naming a site that a different group has answers {ok: false, error} and
\* leaves every group's members and the blocked list as they were.
C21_GroupExclusivity ==
    /\ [](\A site \in Sites : Cardinality(GroupsOf(site)) <= 1)
    /\ [][\A sites \in RegistrySiteLists :
            /\ \A name \in RegistryNames :
                  (/\ \E i \in 1..Len(sites) : GroupsOf(sites[i]) # {}
                   /\ AddGroupUpTo(MaxRegistryGroups, name, sites, None))
                      => /\ result'.ok = FALSE /\ result'.error # ""
                         /\ MembershipUnchanged
            /\ \A id \in GroupIdSet :
                  (/\ FindGroup(id, siteGroups) > 0
                   /\ \E i \in 1..Len(sites) :
                         GroupsOf(sites[i]) \ {FindGroup(id, siteGroups)} # {}
                   /\ UpdateGroup(id, None, Some(sites), None))
                      => /\ result'.ok = FALSE /\ result'.error # ""
                         /\ MembershipUnchanged]_vars

\* with each site in a group of its own, a request naming the other
\* group's site has been refused
C21_Witness ==
    /\ Len(siteGroups) = 2
    /\ siteGroups[1].sites = <<"a.com">>
    /\ siteGroups[2].sites = <<"b.com">>
    /\ result = Fail("is already in group")
    /\ ops >= 3

\* C22: every stored group has a member; an addGroup with no site or no
\* name, and an updateGroup with no site, answer {ok: false, error} and
\* change nothing.
C22_GroupsNeverEmpty ==
    /\ [](\A i \in 1..Len(siteGroups) : Len(siteGroups[i].sites) > 0)
    /\ [][/\ \A name \in RegistryNames, sites \in RegistrySiteLists :
                ((name = <<>> \/ sites = <<>>)
                 /\ AddGroupUpTo(MaxRegistryGroups, name, sites, None))
                    => /\ result'.ok = FALSE /\ result'.error # ""
                       /\ UNCHANGED storeVars
          /\ \A id \in GroupIdSet :
                (FindGroup(id, siteGroups) > 0
                 /\ UpdateGroup(id, None, Some(<<>>), None))
                    => /\ result'.ok = FALSE /\ result'.error # ""
                       /\ UNCHANGED storeVars]_vars

\* C23: a site that has been removed from the blocked list and not added
\* to it again has no per-site settings entry and is in no group.  (Every
\* site is blocked at the start, so a site missing from the list has been
\* removed.)
C23_RemovedSiteStaysGone ==
    \A site \in Sites :
        ~Includes(blockedSites, site) =>
            /\ site \notin DOMAIN siteSettings
            /\ GroupsOf(site) = {}

\* C30: a granted pause leaves the streak as it was, and so does an unlock
\* granted while an unlock cost applies to the site, whatever the task list.
C30_StreakOnlyPlainUnlock ==
    [][/\ \A site \in Sites :
            (/\ getEffectiveCost(site, siteGroups, siteSettings) # None
             /\ unlockSite(site, Store, now).ready
             /\ Unlock(site)) => streak' = streak
       /\ \A site \in Sites, d \in PauseInputs, j \in Justifications :
            (/\ pauseSite(site, d, j, Store, now).ready
             /\ Pause(site, d, j)) => streak' = streak]_vars

(***************************************************************************)
(* Backups and sync.  A serialized snapshot is the sequence of its parts:  *)
(* the creation stamp, one part per blocked site and per task, the config, *)
(* the streak, one part per group and per settings entry, and the closing  *)
(* brace.  Text lengths and the chunk size count parts.                    *)
(***************************************************************************)
MAX_LOCAL_BACKUPS == 5
SYNC_CHUNK_SIZE == 5

SiteOrder == <<"a.com", "b.com">>

\* a backup snapshot that leaves the unlock records out
buildLocalBackupSnapshotNoUnlocks(st, t) ==
    [version |-> 2, createdAt |-> t,
     blockedSites |-> st.blockedSites, tasks |-> st.tasks,
     config |-> normalizeConfig(st.config), streak |-> st.streak,
     timeLog |-> st.timeLog, unlocks |-> <<>>,
     siteGroups |-> st.siteGroups, siteSettings |-> st.siteSettings]

buildLocalBackupSnapshot(st, t) ==
    [version |-> 2, createdAt |-> t,
     blockedSites |-> st.blockedSites, tasks |-> st.tasks,
     config |-> normalizeConfig(st.config), streak |-> st.streak,
     timeLog |-> st.timeLog, unlocks |-> st.unlocks,
     siteGroups |-> st.siteGroups, siteSettings |-> st.siteSettings]

buildSyncSnapshot(st, t) ==
    LET cfg == normalizeConfig(st.config)
    IN  [version |-> 2, createdAt |-> t,
         blockedSites |-> st.blockedSites, tasks |-> st.tasks,
         config |-> [cooldownMinutes |-> cfg.cooldownMinutes,
                     unlockMode |-> cfg.unlockMode,
                     unlockSection |-> cfg.unlockSection],
         streak |-> st.streak,
         siteGroups |-> st.siteGroups, siteSettings |-> st.siteSettings]

Part(k, v) == [k |-> k, v |-> v]
Parts(k, list) == [i \in 1..Len(list) |-> Part(k, list[i])]
SettingsKeys(settings) == SelectSeq(SiteOrder, LAMBDA s : s \in DOMAIN settings)

\* JSON.stringify(snapshot)
stringify(snapshot) ==
    LET keys == SettingsKeys(snapshot.siteSettings)
    IN  <<Part("createdAt", snapshot.createdAt)>>
        \o Parts("site", snapshot.blockedSites)
        \o Parts("task", snapshot.tasks)
        \o <<Part("config", snapshot.config), Part("streak", snapshot.streak)>>
        \o Parts("group", snapshot.siteGroups)
        \o [i \in 1..Len(keys) |->
              Part("settings", <<keys[i], snapshot.siteSettings[keys[i]]>>)]
        \o <<Part("}", 0)>>

PartRank(k) ==
    CASE k = "createdAt" -> 1 [] k = "site" -> 2 [] k = "task" -> 3
      [] k = "config" -> 4 [] k = "streak" -> 5 [] k = "group" -> 6
      [] k = "settings" -> 7 [] OTHER -> 8

PartsOf(text, k) ==
    LET sel == SelectSeq(text, LAMBDA p : p.k = k)
    IN  [i \in 1..Len(sel) |-> sel[i].v]

\* the text is one complete serialized object
WellFormed(text) ==
    /\ Len(text) > 0
    /\ \A i \in 1..(Len(text) - 1) : PartRank(text[i].k) <= PartRank(text[i + 1].k)
    /\ \A k \in {"createdAt", "config", "streak", "}"} : Len(PartsOf(text, k)) = 1

\* JSON.parse(serialized): the value, or a SyntaxError
parse(text) ==
    IF ~WellFormed(text) THEN [ok |-> FALSE, value |-> None]
    ELSE LET entries == PartsOf(text, "settings")
         IN  [ok |-> TRUE,
              value |-> Some(
                [version |-> 2,
                 createdAt |-> PartsOf(text, "createdAt")[1],
                 blockedSites |-> PartsOf(text, "site"),
                 tasks |-> PartsOf(text, "task"),
                 config |-> PartsOf(text, "config")[1],
                 streak |-> PartsOf(text, "streak")[1],
                 siteGroups |-> PartsOf(text, "group"),
                 siteSettings |->
                    [s \in {entries[i][1] : i \in 1..Len(entries)} |->
                        LET i == CHOOSE j \in 1..Len(entries) : entries[j][1] = s
                        IN  entries[i][2]]])]

Min(a, b) == IF a < b THEN a ELSE b

RECURSIVE ChunkLoop(_, _, _, _)
ChunkLoop(input, size, i, chunks) ==
    IF i < Len(input)
    THEN ChunkLoop(input, size, i + size,
                   Append(chunks, SubSeq(input, i + 1, Min(i + size, Len(input)))))
    ELSE chunks

\* chunkString without a trailing chunk shorter than the size
chunkStringWholeOnly(input, size) ==
    SelectSeq(ChunkLoop(input, size, 0, <<>>), LAMBDA c : Len(c) = size)

\* chunkString: chunks[i + 1] is the chunk pushed at index i
chunkString(input, size) == ChunkLoop(input, size, 0, <<>>)

\* writeSyncSnapshot without the removal of the trailing chunk keys
writeSyncSnapshotNoRemove(snapshot, store) ==
    LET chunks == chunkString(stringify(snapshot), SYNC_CHUNK_SIZE)
        written == 0..(Len(chunks) - 1)
    IN  [meta |-> Some([version |-> 1, updatedAt |-> snapshot.createdAt,
                        chunks |-> Len(chunks)]),
         chunks |-> [i \in DOMAIN store.chunks \cup written |->
                        IF i \in written THEN chunks[i + 1] ELSE store.chunks[i]]]

\* writeSyncSnapshot: what it leaves in chrome.storage.sync
writeSyncSnapshot(snapshot, store) ==
    LET serialized == stringify(snapshot)
        chunks == chunkString(serialized, SYNC_CHUNK_SIZE)
        oldMeta == store.meta
        written == 0..(Len(chunks) - 1)
        afterSet ==
            [meta |-> Some([version |-> 1, updatedAt |-> snapshot.createdAt,
                            chunks |-> Len(chunks)]),
             chunks |-> [i \in DOMAIN store.chunks \cup written |->
                            IF i \in written THEN chunks[i + 1] ELSE store.chunks[i]]]
        removeKeys ==
            IF oldMeta # None /\ Val(oldMeta).chunks > Len(chunks)
            THEN Len(chunks)..(Val(oldMeta).chunks - 1)
            ELSE {}
    IN  IF Len(chunks) = 0 THEN store
        ELSE [afterSet EXCEPT !.chunks =
                [i \in DOMAIN @ \ removeKeys |-> @[i]]]

RECURSIVE Concat(_, _, _)
Concat(chunks, i, n) ==
    IF i < n THEN chunks[i] \o Concat(chunks, i + 1, n) ELSE <<>>

\* readSyncSnapshot: null, a thrown error, or the parsed snapshot
readSyncSnapshot(store) ==
    LET meta == store.meta
        n == Val(meta).chunks
    IN  IF meta = None \/ Val(meta).chunks <= 0
        THEN [kind |-> "null", error |-> "", snapshot |-> None]
        ELSE IF \E i \in 0..(n - 1) : i \notin DOMAIN store.chunks
        THEN [kind |-> "throw", error |-> "Sync snapshot is incomplete",
              snapshot |-> None]
        ELSE LET parsed == parse(Concat(store.chunks, 0, n))
             IN  IF parsed.ok
                 THEN [kind |-> "snapshot", error |-> "", snapshot |-> parsed.value]
                 ELSE [kind |-> "throw", error |-> "SyntaxError", snapshot |-> None]

Take(list, n) == SubSeq(list, 1, Min(n, Len(list)))

\* saveLocalBackup without the cut to MAX_LOCAL_BACKUPS entries
saveLocalBackupUncut(st, backups, t, id) ==
    LET snapshot == buildLocalBackupSnapshot(st, t)
    IN  <<[id |-> id, createdAt |-> snapshot.createdAt, snapshot |-> snapshot]>>
        \o backups

\* saveLocalBackup: the list it stores; `id` is the crypto.randomUUID drawn
saveLocalBackup(st, backups, t, id) ==
    LET snapshot == buildLocalBackupSnapshot(st, t)
        backupEntry == [id |-> id, createdAt |-> snapshot.createdAt,
                        snapshot |-> snapshot]
    IN  Take(<<backupEntry>> \o backups, MAX_LOCAL_BACKUPS)

Field(snapshot, f, default) ==
    IF f \in DOMAIN snapshot THEN snapshot[f] ELSE default

\* applySnapshot taking the snapshot's markdownPath whatever the origin
applySnapshotWithPath(snapshot, fromSync, st) ==
    [blockedSites |-> snapshot.blockedSites,
     tasks |-> snapshot.tasks,
     config |-> normalizeConfig(snapshot.config),
     streak |-> snapshot.streak,
     timeLog |-> Field(snapshot, "timeLog", <<>>),
     unlocks |-> Field(snapshot, "unlocks", <<>>),
     siteGroups |-> snapshot.siteGroups,
     siteSettings |-> snapshot.siteSettings]

\* applySnapshot: the local state it writes
applySnapshot(snapshot, fromSync, st) ==
    LET incomingConfig == normalizeConfig(snapshot.config)
        currentConfig == normalizeConfig(st.config)
    IN  [blockedSites |-> snapshot.blockedSites,
         tasks |-> snapshot.tasks,
         config |-> IF fromSync
                    THEN [incomingConfig EXCEPT
                             !.markdownPath = currentConfig.markdownPath]
                    ELSE incomingConfig,
         streak |-> snapshot.streak,
         timeLog |-> Field(snapshot, "timeLog", <<>>),
         unlocks |-> Field(snapshot, "unlocks", <<>>),
         siteGroups |-> snapshot.siteGroups,
         siteSettings |-> snapshot.siteSettings]

\* storage.onChanged: syncNow when a synced key changed
AutoSync(old, new, store, t) ==
    IF \/ old.blockedSites # new.blockedSites \/ old.tasks # new.tasks
       \/ old.config # new.config \/ old.streak # new.streak
       \/ old.siteGroups # new.siteGroups \/ old.siteSettings # new.siteSettings
    THEN writeSyncSnapshot(buildSyncSnapshot(new, t), store)
    ELSE store

(***************************************************************************)
(* The sync machine: the local store, the remote store and the backup      *)
(* list.  Each action is one handler run to completion with the rule       *)
(* rebuild and the sync write its storage write triggers; writes to the    *)
(* remote store happen one after another.  Another device writes its own   *)
(* snapshots to the remote store, and a chunk key of the remote store can  *)
(* be lost.  A run takes at most MaxSyncOps steps.                         *)
(***************************************************************************)
MaxSyncOps == 4
MaxInitBackups == 4

SyncFrame == UNCHANGED <<alarms, now, handlers, rebuilds, log, doneAtUnlock>>

\* a handler that only writes the local store
Stored(st, res) ==
    /\ Commit(st)
    /\ rules' = OnChanged(Store, st, rules, now)
    /\ syncStore' = AutoSync(Store, st, syncStore, now)
    /\ result' = res
    /\ UNCHANGED <<nextGroupId, localBackups>>
    /\ SyncFrame

\* restoreFromSync taking the safety backup before it reads the snapshot
restoreFromSyncBackupFirst(st, store, backups, t, id) ==
    LET r == readSyncSnapshot(store)
    IN  IF r.kind # "snapshot"
        THEN [kind |-> r.kind, error |-> r.error, store |-> st,
              backups |-> saveLocalBackup(st, backups, t, id),
              createdAt |-> None]
        ELSE [kind |-> "restored", error |-> "",
              store |-> applySnapshot(Val(r.snapshot), TRUE, st),
              backups |-> saveLocalBackup(st, backups, t, id),
              createdAt |-> Some(Val(r.snapshot).createdAt)]

\* restoreFromSync: null, a thrown error, or the backup list and the local
\* state it leaves
restoreFromSync(st, store, backups, t, id) ==
    LET r == readSyncSnapshot(store)
    IN  IF r.kind # "snapshot"
        THEN [kind |-> r.kind, error |-> r.error, store |-> st,
              backups |-> backups, createdAt |-> None]
        ELSE [kind |-> "restored", error |-> "",
              store |-> applySnapshot(Val(r.snapshot), TRUE, st),
              backups |-> saveLocalBackup(st, backups, t, id),
              createdAt |-> Some(Val(r.snapshot).createdAt)]

\* restoreLatestLocalBackup: null, or the local state it leaves
restoreLatestLocalBackup(st, backups) ==
    IF Len(backups) = 0 THEN [found |-> FALSE, store |-> st, id |-> None]
    ELSE [found |-> TRUE,
          store |-> applySnapshot(backups[1].snapshot, FALSE, st),
          id |-> Some(backups[1].id)]

\* the responses of the sync and backup requests
Synced(meta) == [ok |-> TRUE, error |-> "", result |-> meta]
Restored(info) == [ok |-> TRUE, error |-> "", restored |-> info]
BackedUp(info) == [ok |-> TRUE, error |-> "", backup |-> info]
Failed(error) == [ok |-> FALSE, error |-> error]

\* handleMessage "syncNow"
SyncNow ==
    /\ syncStore' = writeSyncSnapshot(buildSyncSnapshot(Store, now), syncStore)
    /\ result' = Synced(Val(syncStore'.meta))
    /\ UNCHANGED <<storeVars, rules, nextGroupId, localBackups>>
    /\ SyncFrame

\* applySnapshot: the write, the awaited rebuild, the sync write it triggers
Applied(st, backups, uuids, res) ==
    /\ Commit(st)
    /\ rules' = Rebuild(rules, st, now)
    /\ syncStore' = AutoSync(Store, st, syncStore, now)
    /\ localBackups' = backups
    /\ nextGroupId' = uuids
    /\ result' = res
    /\ SyncFrame

Refused(error) ==
    /\ result' = Failed(error)
    /\ UNCHANGED <<storeVars, rules, syncStore, nextGroupId, localBackups>>
    /\ SyncFrame

\* handleMessage "syncRestore"
SyncRestore ==
    LET r == restoreFromSync(Store, syncStore, localBackups, now, nextGroupId)
    IN  IF r.kind = "restored"
        THEN Applied(r.store, r.backups, nextGroupId + 1,
                     Restored([createdAt |-> Val(r.createdAt),
                               tasks |-> Len(r.store.tasks)]))
        ELSE /\ result' = Failed(IF r.kind = "null" THEN "No sync snapshot found"
                                 ELSE r.error)
             /\ localBackups' = r.backups
             /\ UNCHANGED <<storeVars, rules, syncStore, nextGroupId>>
             /\ SyncFrame

\* handleMessage "backupCreate"
BackupCreate ==
    /\ localBackups' = saveLocalBackup(Store, localBackups, now, nextGroupId)
    /\ nextGroupId' = nextGroupId + 1
    /\ result' = BackedUp([id |-> nextGroupId, createdAt |-> now,
                           count |-> Len(localBackups')])
    /\ UNCHANGED <<storeVars, rules, syncStore>>
    /\ SyncFrame

\* handleMessage "backupRestore"
BackupRestore ==
    LET r == restoreLatestLocalBackup(Store, localBackups)
    IN  IF ~r.found THEN Refused("No local backup found")
        ELSE Applied(r.store, localBackups, nextGroupId,
                     Restored([id |-> Val(r.id)]))

\* another device runs writeSyncSnapshot on the synced store
RemoteWrite(snapshot) ==
    /\ syncStore' = writeSyncSnapshot(snapshot, syncStore)
    /\ UNCHANGED <<storeVars, rules, result, nextGroupId, localBackups>>
    /\ SyncFrame

\* a chunk key is gone from the synced store
ChunkLost(i) ==
    /\ i \in DOMAIN syncStore.chunks
    /\ syncStore' = [syncStore EXCEPT !.chunks = [j \in DOMAIN @ \ {i} |-> @[j]]]
    /\ UNCHANGED <<storeVars, rules, result, nextGroupId, localBackups>>
    /\ SyncFrame

EmptyLocal ==
    [blockedSites |-> <<>>, tasks |-> <<>>, config |-> DEFAULT_CONFIG,
     streak |-> DEFAULT_STREAK, timeLog |-> <<>>, unlocks |-> <<>>,
     siteGroups |-> <<>>, siteSettings |-> [s \in {} |-> EmptySettings]]

\* two sites added, two tasks completed, a.com unlocked at 0
BusyLocal ==
    LET added == addSite("b.com", addSite("a.com", EmptyLocal, 0), 0)
        r == unlockSite("a.com", [added EXCEPT !.tasks = TaskList(2, 2)], 0)
    IN  [r.store EXCEPT !.streak = updateStreak(r.store, 0)]

SyncLocals == {EmptyLocal, BusyLocal}
SyncTaskLists == {<<>>, TaskList(2, 1)}
SyncConfigPatches ==
    {[markdownPath |-> "/notes.md"],
     [unlockMode |-> "section", unlockSection |-> Work]}

SmallRemote == buildSyncSnapshot(EmptyLocal, 7)
BigRemote ==
    LET st == addGroup("g3", <<"G">>, <<"a.com">>, None,
                       [BusyLocal EXCEPT !.tasks = TaskList(2, 1)], 0)
    IN  [buildSyncSnapshot(st, 9) EXCEPT
            !.config = [markdownPath |-> "/other.md", cooldownMinutes |-> 15,
                        unlockMode |-> "all", unlockSection |-> <<>>]]
RemoteSnapshots == {SmallRemote, BigRemote}
ChunkIndices == 0..3

\* k backups of the state taken in a row, newest first
BackupsOf(st, k) ==
    [i \in 1..k |-> [id |-> k - i, createdAt |-> 0,
                     snapshot |-> buildLocalBackupSnapshot(st, 0)]]

InitSync ==
    /\ \E st \in SyncLocals, k \in 0..MaxInitBackups :
          /\ blockedSites = st.blockedSites
          /\ tasks = st.tasks
          /\ config = st.config
          /\ streak = st.streak
          /\ timeLog = st.timeLog
          /\ unlocks = st.unlocks
          /\ siteGroups = st.siteGroups
          /\ siteSettings = st.siteSettings
          /\ alarms = [n \in {AlarmName(st.unlocks[i].key) : i \in 1..Len(st.unlocks)} |->
                          DefaultCooldownMinutes * MsPerMinute]
          /\ rules = BuildRules(st.blockedSites, st.unlocks, 0)
          /\ localBackups = BackupsOf(st, k)
          /\ nextGroupId = k
    /\ now = 0
    /\ result = Ok
    /\ handlers = {}
    /\ rebuilds = NoRebuilds
    /\ log = <<>>
    /\ doneAtUnlock = [s \in Sites |-> None]
    /\ ops = 0
    /\ syncStore = NoSync

NextSync ==
    \/ \E site \in Sites :
          Step(MaxSyncOps) /\ Stored(addSite(site, Store, now), Ok)
    \/ \E site \in Sites :
          Step(MaxSyncOps) /\ Stored(removeSite(site, Store), Ok)
    \/ \E list \in SyncTaskLists :
          Step(MaxSyncOps) /\ Stored([Store EXCEPT !.tasks = list], Ok)
    \/ \E patch \in SyncConfigPatches :
          Step(MaxSyncOps) /\ Stored(updateConfig(patch, Store), Ok)
    \/ Step(MaxSyncOps) /\ SyncNow
    \/ Step(MaxSyncOps) /\ SyncRestore
    \/ Step(MaxSyncOps) /\ BackupCreate
    \/ Step(MaxSyncOps) /\ BackupRestore
    \/ \E snapshot \in RemoteSnapshots : Step(MaxSyncOps) /\ RemoteWrite(snapshot)
    \/ \E i \in ChunkIndices : Step(MaxSyncOps) /\ ChunkLost(i)

SpecSync == InitSync /\ [][NextSync]_vars

\* the snapshots a step can have written: the local one and the other device's
WrittenSnapshots == {buildSyncSnapshot(Store', now)} \cup RemoteSnapshots

ChunkCount(store) == Val(store.meta).chunks

\* C24: after a write of a snapshot the read returns a value with the same
\* serialization: the chunks 0..count-1 in index order make up the
\* serialized text, no chunk is longer than the chunk size and all but the
\* last have exactly that size; writing the value read stores the same.
C24_SyncRoundTrip ==
    [][\A S \in WrittenSnapshots :
          syncStore' = writeSyncSnapshot(S, syncStore) =>
             LET r == readSyncSnapshot(syncStore')
                 n == ChunkCount(syncStore')
             IN  /\ r.kind = "snapshot"
                 /\ stringify(Val(r.snapshot)) = stringify(S)
                 /\ Concat(syncStore'.chunks, 0, n) = stringify(S)
                 /\ \A i \in 0..(n - 1) :
                       /\ Len(syncStore'.chunks[i]) <= SYNC_CHUNK_SIZE
                       /\ i < n - 1 => Len(syncStore'.chunks[i]) = SYNC_CHUNK_SIZE
                 /\ writeSyncSnapshot(Val(r.snapshot), syncStore') = syncStore']_vars

\* a snapshot of three chunks, the last one short, has been written and reads
C24_Witness ==
    /\ syncStore.meta # None
    /\ ChunkCount(syncStore) = 3
    /\ DOMAIN syncStore.chunks = 0..2
    /\ Len(syncStore.chunks[2]) < SYNC_CHUNK_SIZE
    /\ readSyncSnapshot(syncStore).kind = "snapshot"

\* C25: after each write of a series of writes made one after another, the
\* chunk keys in the remote store are exactly 0..n-1, n being the chunk
\* count in the meta record that write stored.
C25_NoOrphanedChunks ==
    [][\A S \in WrittenSnapshots :
          syncStore' = writeSyncSnapshot(S, syncStore) =>
             /\ ChunkCount(syncStore') = Len(chunkString(stringify(S), SYNC_CHUNK_SIZE))
             /\ DOMAIN syncStore'.chunks = 0..(ChunkCount(syncStore') - 1)]_vars

\* the local state came from the three-chunk snapshot of the other device
\* (it has a group), and the remote store now holds one chunk
C25_Witness ==
    /\ siteGroups # <<>>
    /\ syncStore.meta # None
    /\ ChunkCount(syncStore) = 1
    /\ DOMAIN syncStore.chunks = {0}

\* the meta record announces chunks of which at least one is absent
Incomplete(store) ==
    /\ store.meta # None
    /\ \E i \in 0..(ChunkCount(store) - 1) : i \notin DOMAIN store.chunks

\* C26: with a chunk missing from the remote store the read yields no
\* snapshot, syncRestore answers {ok: false, error}, and the local state,
\* the backup list included, is as it was.
C26_MissingChunkFailsRead ==
    [][(Incomplete(syncStore) /\ SyncRestore) =>
          /\ readSyncSnapshot(syncStore).snapshot = None
          /\ result'.ok = FALSE
          /\ result'.error # ""
          /\ UNCHANGED <<storeVars, localBackups, alarms, rules>>]_vars

C26_Witness ==
    /\ Incomplete(syncStore)
    /\ result = Failed("Sync snapshot is incomplete")

\* the eight local fields as a snapshot holds them
StateOf(snapshot) == [f \in DOMAIN Store |-> snapshot[f]]

Readable(store) == readSyncSnapshot(store).kind = "snapshot"

\* C27: a syncRestore that reads a snapshot puts a backup of the state it
\* found at the head of the backup list, and a backupRestore writes the
\* eight fields of the head backup: issued right after the syncRestore it
\* returns them to their values from before it.
C27_RestoreRecoverable ==
    [][/\ (Readable(syncStore) /\ SyncRestore) =>
             /\ Len(localBackups') > 0
             /\ StateOf(localBackups'[1].snapshot) = Store
             /\ result'.ok
       /\ (Len(localBackups) > 0 /\ BackupRestore) =>
             /\ Store' = StateOf(localBackups[1].snapshot)
             /\ result'.ok]_vars

\* a syncRestore has replaced a state with unlock records by a snapshot,
\* and the head backup holds those records
C27_Witness ==
    /\ "restored" \in DOMAIN result
    /\ "createdAt" \in DOMAIN result.restored
    /\ Len(localBackups) > 0
    /\ localBackups[1].snapshot.unlocks # <<>>
    /\ unlocks = <<>>

\* C28: the snapshot syncNow writes holds no markdownPath; a syncRestore
\* leaves config.markdownPath as it was whatever the snapshot holds; a
\* backupRestore sets it to the markdownPath of the backup.
C28_MarkdownPathStaysLocal ==
    [][/\ SyncNow =>
             /\ Readable(syncStore')
             /\ "markdownPath" \notin
                    DOMAIN Val(readSyncSnapshot(syncStore').snapshot).config
       /\ (Readable(syncStore) /\ SyncRestore) =>
             config'.markdownPath = config.markdownPath
       /\ (Len(localBackups) > 0 /\ BackupRestore) =>
             config'.markdownPath = localBackups[1].snapshot.config.markdownPath]_vars

\* a syncRestore has applied the other device's snapshot, which names a
\* path, on a device with a path of its own
C28_Witness ==
    /\ "restored" \in DOMAIN result
    /\ "createdAt" \in DOMAIN result.restored
    /\ result.restored.createdAt = BigRemote.createdAt
    /\ BigRemote.config.markdownPath = "/other.md"
    /\ config.markdownPath = "/notes.md"
    /\ config.cooldownMinutes = BigRemote.config.cooldownMinutes

\* a push: a backup of the state at the head, the earlier entries behind it
\* in their order, the entries past the fifth place dropped
Pushed ==
    /\ Len(localBackups') = Min(Len(localBackups) + 1, 5)
    /\ StateOf(localBackups'[1].snapshot) = Store
    /\ \A i \in 2..Len(localBackups') : localBackups'[i] = localBackups[i - 1]

\* C29: the backup list holds at most 5 entries, newest first (ids are
\* numbered in the order they were drawn); backupCreate and a successful
\* syncRestore push; backupRestore writes the snapshot of the first entry,
\* or answers {ok: false} and changes nothing when the list is empty.
C29_BackupRing ==
    /\ [](/\ Len(localBackups) <= 5
          /\ \A i \in 1..(Len(localBackups) - 1) :
                localBackups[i].id > localBackups[i + 1].id)
    /\ [][/\ BackupCreate => Pushed
          /\ (Readable(syncStore) /\ SyncRestore) => Pushed
          /\ BackupRestore =>
                IF Len(localBackups) = 0
                THEN /\ result'.ok = FALSE
                     /\ UNCHANGED <<storeVars, localBackups, syncStore, alarms, rules>>
                ELSE /\ Store' = StateOf(localBackups[1].snapshot)
                     /\ UNCHANGED localBackups]_vars

\* a sixth push has dropped the oldest backup
C29_Witness ==
    /\ Len(localBackups) = 5
    /\ localBackups[1].id = 5
    /\ localBackups[5].id = 1

\* C40: a successful syncRestore leaves the local time log and the unlock
\* records as they were.
C40_SyncRestoreFrame ==
    [][(Readable(syncStore) /\ SyncRestore) =>
          /\ timeLog' = timeLog
          /\ unlocks' = unlocks]_vars

\* the entries of the old log are in the new one, at most stamped since
KeptEntries(stampOnly) ==
    /\ Len(timeLog') >= Len(timeLog)
    /\ \A i \in 1..Len(timeLog) :
          \/ timeLog'[i] = timeLog[i]
          \/ /\ stampOnly
             /\ timeLog[i].lockedAt = None
             /\ timeLog'[i] = [timeLog[i] EXCEPT !.lockedAt = Some(now)]

\* C34: a granted unlock or pause appends one entry, for the site visited
\* and with lockedAt null, and leaves the other entries alone; a relock of
\* a site leaves no entry of that site with lockedAt null, and changes the
\* entries it keeps only by stamping lockedAt.
C34_TimeLogClosure ==
    [][\A site \in Sites :
          /\ IsGrant(site) =>
                /\ Len(timeLog') = Len(timeLog) + 1
                /\ timeLog'[Len(timeLog')].site = site
                /\ timeLog'[Len(timeLog')].lockedAt = None
                /\ KeptEntries(FALSE)
          /\ (Relock(site) \/ AlarmFire(AlarmName(site))) =>
                /\ Len(timeLog') = Len(timeLog)
                /\ KeptEntries(TRUE)
                /\ \A i \in 1..Len(timeLog') :
                      timeLog'[i].site = site => timeLog'[i].lockedAt # None]_vars

\* the unlock records and settings of the sites a handler does not address
\* are after its write what they were before it
OthersKept(site) ==
    \A k \in Sites \ RelockTargets(site) :
        /\ HasKey(unlocks', k) = HasKey(unlocks, k)
        /\ HasKey(unlocks, k) => Lookup(unlocks', k) = Lookup(unlocks, k)
        /\ SettingsOf(siteSettings', k) = SettingsOf(siteSettings, k)

\* C35: the storage write of an unlock, a pause or a relock that
\* interleaves with another handler keeps the other handler's updates: the
\* records and settings of other sites stay as stored, an unlock or pause
\* keeps every time-log entry, and a relock removes or adds none.
C35_NoLostUpdates ==
    [][\A h \in handlers :
          /\ WriteGrant(h) =>
                /\ OthersKept(h.site)
                /\ Len(timeLog') >= Len(timeLog)
                /\ SubSeq(timeLog', 1, Len(timeLog)) = timeLog
          /\ WriteRelock(h) =>
                /\ OthersKept(h.site)
                /\ Len(timeLog') = Len(timeLog)]_vars

\* C37: a relock fired by an alarm deletes no unlock record that expires
\* after the moment the alarm fires.
C37_NoPrematureRelock ==
    [][\A name \in AlarmNames :
          AlarmFire(name) =>
              \A i \in 1..Len(unlocks) :
                  unlocks[i].expiresAt > now => HasKey(unlocks', unlocks[i].key)]_vars

\* the other children of the parent of `id`
Siblings(list, id) ==
    LET k == IndexOfId(list, id)
    IN  {j \in Range(ChildrenOf(list, list[k].parentId)) : j # k}

MaxStreak == 2
FirstStreakDay == 2
MaxStreakDays == 4
MaxStreakOps == 7
HalfDay == DayMs \div 2

StreakStates ==
    {DEFAULT_STREAK} \cup
    {[current |-> c, longest |-> l, lastDate |-> Some(d)] :
        c \in 1..MaxStreak, l \in 1..MaxStreak, d \in 0..FirstStreakDay}

InitStreak ==
    /\ blockedSites = <<>>
    /\ tasks \in PlainTaskLists
    /\ config = DEFAULT_CONFIG
    /\ streak \in {s \in StreakStates : s.longest >= s.current}
    /\ timeLog = <<>>
    /\ unlocks = <<>>
    /\ siteGroups = <<>>
    /\ siteSettings = [s \in {} |-> EmptySettings]
    /\ alarms = NoAlarms
    /\ rules = {}
    /\ now = FirstStreakDay * DayMs
    /\ nextGroupId = 0
    /\ result = Ok
    /\ handlers = {}
    /\ rebuilds = NoRebuilds
    /\ log = <<>>
    /\ doneAtUnlock = [s \in Sites |-> None]
    /\ ops = 0
    /\ syncStore = NoSync
    /\ localBackups = <<>>

\* half a day passes
StreakTick ==
    /\ DayOf(now) < MaxStreakDays
    /\ now' = now + HalfDay
    /\ UNCHANGED <<storeVars, alarms, rules, nextGroupId, result>>
    /\ Idle

NextStreak ==
    \/ \E site \in Sites : Step(MaxStreakOps) /\ AddSite(site)
    \/ \E list \in PlainTaskLists : Step(MaxStreakOps) /\ UpdateTasks(list)
    \/ \E site \in Sites : Step(MaxStreakOps) /\ Unlock(site)
    \/ Step(MaxStreakOps) /\ StreakTick

SpecStreak == InitStreak /\ [][NextStreak]_vars

\* C31: an unlock granted on day d with the requirement met leaves the
\* streak as it was when lastDate is d; otherwise current becomes current + 1
\* when lastDate is the day before d and 1 in every other case, longest
\* becomes the larger of longest and the new current, and lastDate becomes
\* d.  The longest streak is never below the current one.
C31_StreakRule ==
    /\ [](streak.longest >= streak.current)
    /\ [][\A site \in Sites :
            (/\ isUnlockRequirementMet(tasks, config)
             /\ Unlock(site)
             /\ result'.ok) =>
                LET d == now \div DayMs
                    c == IF streak.lastDate = Some(d - 1)
                         THEN streak.current + 1 ELSE 1
                IN  IF streak.lastDate = Some(d)
                    THEN streak' = streak
                    ELSE /\ streak'.current = c
                         /\ streak'.longest =
                               (IF streak.longest >= c THEN streak.longest ELSE c)
                         /\ streak'.lastDate = Some(d)
                         /\ streak'.longest >= streak'.current]_vars

\* two unlocks have been granted, the second one on the day after the
\* first, and the streak counts both days
C31_Witness ==
    /\ Len(timeLog) = 2
    /\ DayOf(timeLog[2].unlockedAt) = DayOf(timeLog[1].unlockedAt) + 1
    /\ streak.lastDate = Some(DayOf(timeLog[2].unlockedAt))
    /\ streak.current >= 2
    /\ result.ok

(***************************************************************************)
(* The message boundary: chrome.runtime.onMessage hands the message to     *)
(* handleMessage and answers with what its promise resolves to.  A message *)
(* carries its type and, where the handler reads one, the site argument;   *)
(* None stands for an argument the sender left out.                        *)
(***************************************************************************)
MaxBoundaryOps == 4

Message(type, site) == [type |-> type, site |-> site]

Messages ==
    {Message(type, Some(site)) :
        type \in {"addSite", "removeSite", "unlock", "relock"}, site \in Sites}
      \cup {Message("addSite", None), Message("reset", None)}

\* the promise of handleMessage rejected: .then(sendResponse) never answers
Rejected(error) == [rejected |-> TRUE, error |-> error]

\* default: return { error: "unknown message type" }
UnknownType == [error |-> "unknown message type"]

\* handleMessage for the message types above: msg.site.replace(...) of the
\* addSite case throws a TypeError when msg.site is undefined, after the
\* storage read and before any write, and nothing catches it
HandleMessage(msg) ==
    CASE msg.type = "addSite" ->
            IF msg.site = None
            THEN Handle(Store, Rejected("TypeError"))
            ELSE AddSite(Val(msg.site))
      [] msg.type = "removeSite" -> RemoveSite(Val(msg.site))
      [] msg.type = "unlock" -> Unlock(Val(msg.site))
      [] msg.type = "relock" -> Relock(Val(msg.site))
      [] OTHER -> Handle(Store, UnknownType)

NextBoundary ==
    \/ \E msg \in Messages : Step(MaxBoundaryOps) /\ HandleMessage(msg)
    \/ \E list \in PlainTaskLists : Step(MaxBoundaryOps) /\ UpdateTasks(list)
    \/ \E t \in Instants : Step(MaxBoundaryOps) /\ Tick(t)

SpecBoundary == Init /\ [][NextBoundary]_vars

\* C32: whatever the message, its type and its arguments, the handler
\* answers with a value that has the ok field, and an answer with ok false
\* leaves the stored state as it was.
C32_NoThrow ==
    /\ []("ok" \in DOMAIN result)
    /\ [][\A msg \in Messages :
            (/\ HandleMessage(msg)
             /\ "ok" \in DOMAIN result'
             /\ ~result'.ok) => UNCHANGED storeVars]_vars

(***************************************************************************)
(* The task source: the native host parses the markdown file and pushes    *)
(* the list it read, a task's completed taken from its own checkbox and    *)
(* its parentId from its indentation; the page edits the stored list.      *)
(***************************************************************************)
MaxPushTasks == 3
MaxPushOps == 2

PushedLists == UNION {ForestLists(n) : n \in 1..MaxPushTasks}

\* nativePort.onMessage, msg.type === "tasks":
\* await chrome.storage.local.set({ tasks: msg.tasks })
NativeTasks(list) == TaskOp(list, result)

NextPush ==
    \/ \E list \in PushedLists : Step(MaxPushOps) /\ NativeTasks(list)
    \/ \E id \in TreeIds(tasks) : Step(MaxPushOps) /\ ToggleTask(id)
    \/ \E id \in TreeIds(tasks) : Step(MaxPushOps) /\ DeleteTask(id)

SpecPush == InitTree /\ [][NextPush]_vars

\* C33: once a pushed task list has been processed, the stored list holds
\* the pushed tasks, in their order and under their parents, and every
\* composite of it is completed exactly when all its direct children are.
C33_PushResynced ==
    [][\A list \in PushedLists :
          NativeTasks(list) =>
              /\ Len(tasks') = Len(list)
              /\ \A k \in 1..Len(list) :
                    /\ tasks'[k].id = list[k].id
                    /\ tasks'[k].parentId = list[k].parentId
              /\ Consistent(tasks')]_vars

(***************************************************************************)
(* The sync race: a change of the stored task list starts a sync write     *)
(* without waiting for the earlier ones.  A write is three accesses to the *)
(* remote store (get the meta record, set the meta record and the chunks,  *)
(* remove the chunk keys past the new count); a read is two (get the meta  *)
(* record, get the chunks).  Each access is atomic and the accesses of the *)
(* invocations in flight interleave freely.  The snapshot of a write is    *)
(* built from the local store as the change left it.  The remote store     *)
(* starts as a completed write of the initial local state; log lists the   *)
(* snapshots set so far.                                                   *)
(***************************************************************************)
MaxRaceTasks == 5
MaxWriters == 2
MaxReaders == 1
MaxRaceOps == 9

RaceTaskLists ==
    {<<>>, TaskList(MaxRaceTasks, MaxRaceTasks - 1),
     TaskList(MaxRaceTasks, MaxRaceTasks)}

Invocation(id, kind, pc, snapshot, meta) ==
    [id |-> id, kind |-> kind, pc |-> pc, snapshot |-> snapshot, meta |-> meta]

Writers == {h \in handlers : h.kind = "write"}
Readers == {h \in handlers : h.kind = "read"}

InitRace ==
    /\ blockedSites = <<>>
    /\ tasks \in RaceTaskLists
    /\ config = DEFAULT_CONFIG
    /\ streak = DEFAULT_STREAK
    /\ timeLog = <<>>
    /\ unlocks = <<>>
    /\ siteGroups = <<>>
    /\ siteSettings = [s \in {} |-> EmptySettings]
    /\ alarms = NoAlarms
    /\ rules = {}
    /\ now = 0
    /\ nextGroupId = 0
    /\ result = Ok
    /\ handlers = {}
    /\ rebuilds = NoRebuilds
    /\ log = <<buildSyncSnapshot(Store, 0)>>
    /\ doneAtUnlock = [s \in Sites |-> None]
    /\ ops = 0
    /\ syncStore = writeSyncSnapshot(buildSyncSnapshot(Store, 0), NoSync)
    /\ localBackups = <<>>

RaceFrame ==
    UNCHANGED <<alarms, nextGroupId, rebuilds, doneAtUnlock, localBackups>>

\* the task list is stored a millisecond later; storage.onChanged starts
\* syncNow and does not await it
TasksChanged(list) ==
    LET st == [Store EXCEPT !.tasks = list]
        t == now + 1
    IN  /\ list # tasks
        /\ Cardinality(Writers) < MaxWriters
        /\ Commit(st)
        /\ rules' = OnChanged(Store, st, rules, t)
        /\ now' = t
        /\ handlers' = handlers \cup
              {Invocation(ops, "write", "get", Some(buildSyncSnapshot(st, t)), None)}
        /\ result' = Ok
        /\ UNCHANGED <<syncStore, log>>
        /\ RaceFrame

\* writeSyncSnapshot: const existing = await chrome.storage.sync.get(SYNC_META_KEY)
WriteGetMeta(h) ==
    /\ h \in Writers /\ h.pc = "get"
    /\ handlers' = (handlers \ {h}) \cup
          {[h EXCEPT !.pc = "set", !.meta = syncStore.meta]}
    /\ UNCHANGED <<storeVars, rules, now, result, syncStore, log>>
    /\ RaceFrame

\* the chunk keys writeSyncSnapshot removes after its set
RemoveKeys(h) ==
    LET n == Len(chunkString(stringify(Val(h.snapshot)), SYNC_CHUNK_SIZE))
    IN  IF h.meta # None /\ Val(h.meta).chunks > n
        THEN n..(Val(h.meta).chunks - 1)
        ELSE {}

\* a set that leaves the stored chunk 0 as it is
WriteSetTail(h) ==
    LET set == writeSyncSnapshot(Val(h.snapshot),
                                 [meta |-> None, chunks |-> syncStore.chunks])
    IN  /\ h \in Writers /\ h.pc = "set"
        /\ syncStore' =
              [set EXCEPT !.chunks =
                  [i \in DOMAIN @ |->
                      IF i = 0 /\ 0 \in DOMAIN syncStore.chunks
                      THEN syncStore.chunks[0] ELSE @[i]]]
        /\ log' = Append(log, Val(h.snapshot))
        /\ handlers' =
              IF RemoveKeys(h) = {} THEN handlers \ {h}
              ELSE (handlers \ {h}) \cup {[h EXCEPT !.pc = "remove"]}
        /\ UNCHANGED <<storeVars, rules, now, result>>
        /\ RaceFrame

\* writeSyncSnapshot: await chrome.storage.sync.set(payload), the meta
\* record and every chunk in one call; the write is over when its old
\* meta record asks for no removal
WriteSet(h) ==
    /\ h \in Writers /\ h.pc = "set"
    /\ syncStore' = writeSyncSnapshot(Val(h.snapshot),
                                      [meta |-> None, chunks |-> syncStore.chunks])
    /\ log' = Append(log, Val(h.snapshot))
    /\ handlers' =
          IF RemoveKeys(h) = {} THEN handlers \ {h}
          ELSE (handlers \ {h}) \cup {[h EXCEPT !.pc = "remove"]}
    /\ UNCHANGED <<storeVars, rules, now, result>>
    /\ RaceFrame

\* writeSyncSnapshot: await chrome.storage.sync.remove(removeKeys)
WriteRemove(h) ==
    /\ h \in Writers /\ h.pc = "remove"
    /\ syncStore' = [syncStore EXCEPT !.chunks =
                        [i \in DOMAIN @ \ RemoveKeys(h) |-> @[i]]]
    /\ handlers' = handlers \ {h}
    /\ UNCHANGED <<storeVars, rules, now, result, log>>
    /\ RaceFrame

\* readSyncSnapshot: const metaResult = await chrome.storage.sync.get(SYNC_META_KEY)
ReadMeta ==
    /\ Cardinality(Readers) < MaxReaders
    /\ IF syncStore.meta = None \/ Val(syncStore.meta).chunks <= 0
       THEN /\ result' = readSyncSnapshot(syncStore)
            /\ UNCHANGED handlers
       ELSE /\ handlers' = handlers \cup
                  {Invocation(ops, "read", "chunks", None, syncStore.meta)}
            /\ UNCHANGED result
    /\ UNCHANGED <<storeVars, rules, now, syncStore, log>>
    /\ RaceFrame

\* readSyncSnapshot: const chunksResult = await chrome.storage.sync.get(keys),
\* the keys counted by the meta record read before; then the parse
ReadChunks(h) ==
    /\ h \in Readers /\ h.pc = "chunks"
    /\ result' = readSyncSnapshot([meta |-> h.meta, chunks |-> syncStore.chunks])
    /\ handlers' = handlers \ {h}
    /\ UNCHANGED <<storeVars, rules, now, syncStore, log>>
    /\ RaceFrame

NextRace ==
    \/ \E list \in RaceTaskLists : Step(MaxRaceOps) /\ TasksChanged(list)
    \/ \E h \in handlers : Step(MaxRaceOps) /\ WriteGetMeta(h)
    \/ \E h \in handlers : Step(MaxRaceOps) /\ WriteSet(h)
    \/ \E h \in handlers : Step(MaxRaceOps) /\ WriteRemove(h)
    \/ Step(MaxRaceOps) /\ ReadMeta
    \/ \E h \in handlers : Step(MaxRaceOps) /\ ReadChunks(h)

SpecRace == InitRace /\ [][NextRace]_vars

\* the snapshots set so far, as a read returns a snapshot
SetSoFar == {Some(log[i]) : i \in 1..Len(log)}

\* C38: with no sync write in flight, every chunk the meta record counts is
\* in the remote store, and a read returns one of the snapshots written.
C38_ReadableAfterWrites ==
    Writers = {} =>
        /\ ~Incomplete(syncStore)
        /\ Readable(syncStore)
        /\ readSyncSnapshot(syncStore).snapshot \in SetSoFar

\* C39: a read, whatever was written between its two accesses, throws or
\* returns the snapshot of one of the writes set so far, whole.
C39_NoTornRead ==
    [][\A h \in Readers :
          (h \notin handlers' /\ ReadChunks(h)) =>
              \/ result'.kind = "throw"
              \/ /\ result'.kind = "snapshot"
                 /\ result'.snapshot \in SetSoFar']_vars

\* a read whose two accesses had a set between them has put chunks of two
\* writes together, and the parse has thrown
C39_Witness ==
    /\ "kind" \in DOMAIN result
    /\ result.kind = "throw"
    /\ result.error = "SyntaxError"
    /\ Len(log) >= 2

====
